---- MODULE Spec2Model ----
(***************************************************************************)
(* Dynamic-partition memory manager (MuhammadOwais03/OEL_OS).              *)
(*                                                                         *)
(* The repository holds four programs.  test.c and tes3.c share one        *)
(* allocator over a linked list of MemoryBlock (free and used blocks in    *)
(* address order) and differ in their driving loop; final.c keeps a list   *)
(* of free blocks only; test2.c has the block list for processes up to     *)
(* MAX_PARTITION_SIZE and a frame table (paging) for the others.  The      *)
(* variable `variant` says which program runs.  The linked lists are       *)
(* modelled as sequences in list order.                                    *)
(***************************************************************************)
EXTENDS Integers, Sequences, FiniteSets, TLC

(***************************************************************************)
(* Bounds of the model.                                                    *)
(***************************************************************************)
\* total_memory_size: 1024 in test.c (line 606), user input in tes3.c; scaled.
MemorySize == 9
\* process_count / num_processes: number of processes of the input.
NumProcs == 3
\* final.c: number of processes the user enters (MAX_PROCESSES is 20).
MaxEntries == 3
\* test.c adds 50 to the last arrival time to get max_time (line 695); scaled.
ExtraTime == 3
\* tes3.c's loop has no time limit: ticks stop at MaxTime.
MaxTime == 8
\* test2.c: MAX_PARTITION_SIZE is 256 for a default pool of 1024; scaled.
MaxPartitionSize == 6
\* test2.c main deallocates allocated_processes[0] when current_time % 10
\* is 0; scaled.
DemoPeriod == 2
\* The longest process file read.
MaxLines == 2
\* test2.c: frame_table[] and frame_owner[] have MAX_FRAMES = 1024 cells, for
\* a default pool of 1024 / PAGE_SIZE = 256 frames; scaled.
MaxFrames == 4

(***************************************************************************)
(* Program constants.                                                      *)
(***************************************************************************)
\* "best_fit->size <= process->size + 3"
SLACK == 3
\* NULL pointer / "not found" index.
NULL == 0
\* test.c main: "if (current_time % 5 == 0) display_memory_state()".
DisplayPeriod == 5
\* test2.c: "#define PAGE_SIZE 4".
PAGE_SIZE == 4

\* Process sizes of the input: the smallest, one above the slack, one that
\* takes the whole pool by the slack rule, one that never fits.
ProcSizes == {1, SLACK + 1, MemorySize - SLACK, MemorySize + 1}
\* Arrival times and execution times of the input.
ArrivalTimes == {0, 1}
ExecTimes == {1, 2}

VARIABLES
    variant,              \* "test" | "tes3" | "test2" | "final"
    memory_head,          \* the MemoryBlock list, in list order
    freeList,             \* final.c: the FreeBlock list, in list order
    total_used_memory,    \* final.c
    processes,            \* Process processes[]
    waiting_queue,        \* Process* waiting_queue[0..waiting_queue_size)
    allocated_processes,  \* int allocated_processes[0..allocated_count)
    current_time,
    stats,
    next_process_index,   \* main's cursor into processes[] (1-based)
    max_time,             \* test.c main: last arrival + ExtraTime
    pc,                   \* "run" | "input" | "done": position of main
                          \* ("start", "crashed": test2.c's preamble)
    frame_table,          \* test2.c: frame j is allocated (index j + 1)
    frame_owner,          \* test2.c: pid owning frame j, or -1
    total_memory_size,    \* the pool size given to initialize_memory
    threads,              \* final.c: where main and clock_tick_thread are
    log                   \* history: the calls made by the last operation

vars == <<variant, memory_head, freeList, total_used_memory, processes, waiting_queue, allocated_processes,
          current_time, stats, next_process_index, max_time, pc,
          frame_table, frame_owner, total_memory_size, threads, log>>

\* final.c: main at the menu, clock_tick_thread asleep, num_processes 0, no
\* process entered.
IdleThreads ==
    [main |-> "menu", tick |-> "idle", num_processes |-> 0, size |-> 0,
     entered |-> 0]

(***************************************************************************)
(* Small helpers on sequences.                                             *)
(***************************************************************************)
Range(s) == {s[k] : k \in 1..Len(s)}

RemoveAt(s, k) == SubSeq(s, 1, k - 1) \o SubSeq(s, k + 1, Len(s))

InsertAfter(s, k, e) == SubSeq(s, 1, k) \o <<e>> \o SubSeq(s, k + 1, Len(s))

RECURSIVE SumSizes(_)
SumSizes(list) ==
    IF list = <<>> THEN 0 ELSE Head(list).size + SumSizes(Tail(list))

Max(a, b) == IF a > b THEN a ELSE b

(***************************************************************************)
(* Records.                                                                *)
(***************************************************************************)
\* initialize_memory: the single free block covering the pool.
InitialBlock(size) ==
    [start_address |-> 0, size |-> size, is_free |-> TRUE, process_id |-> -1,
     arrival_time |-> -1, allocation_time |-> -1]

\* A process record as read_processes_from_file / create_sample_processes
\* leave it.
NewProcess(pid, arrival, size, exec) ==
    [pid |-> pid, size |-> size, arrival_time |-> arrival, allocated |-> FALSE,
     allocation_time |-> -1, memory_address |-> -1, waiting_time |-> 0,
     execution_time |-> exec, remaining_time |-> exec, completed |-> FALSE]

\* SimulationStats stats = {0} (the integer counters).
\* stats.memory_utilization is a double; the model keeps its exact value
\* num / (total_memory_size * 2^exp), in lowest terms of the power of two.
ZeroStats ==
    [successful_allocations |-> 0, failed_allocations |-> 0,
     total_fragmentation_events |-> 0, max_waiting_time |-> 0,
     completed_processes |-> 0,
     memory_utilization |-> [num |-> 0, exp |-> 0]]

\* One entry of the history variable: a call of allocate_memory or of
\* deallocate_memory, with the block list before the call, after the block
\* was marked (before merge_free_blocks) and after the call.
LogEntry(op, proc, pid, ok, at, before, mid, after) ==
    [op |-> op, proc |-> proc, pid |-> pid, ok |-> ok, at |-> at,
     before |-> before, mid |-> mid, after |-> after]

(***************************************************************************)
(* get_process_by_pid: the first slot of processes[] holding pid, or NULL. *)
(* The slots past the input hold pid 0 and never match a positive pid.     *)
(***************************************************************************)
get_process_by_pid(procs, pid) ==
    LET hits == {i \in DOMAIN procs : procs[i].pid = pid}
    IN  IF hits = {} THEN NULL
        ELSE CHOOSE i \in hits : \A j \in hits : i <= j

(***************************************************************************)
(* allocate_memory, the best-fit scan: `best` is the index of the block    *)
(* best_fit points to (NULL if none), k the index of `current`.            *)
(***************************************************************************)
RECURSIVE BestFitScan(_, _, _, _)
BestFitScanLast(mem, size, k, best) ==
    IF k > Len(mem) THEN best
    ELSE IF mem[k].is_free /\ mem[k].size >= size
            /\ (best = NULL \/ mem[k].size <= mem[best].size)
         THEN BestFitScan(mem, size, k + 1, k)
         ELSE BestFitScan(mem, size, k + 1, best)

BestFitScan(mem, size, k, best) ==
    IF k > Len(mem) THEN best
    ELSE IF mem[k].is_free /\ mem[k].size >= size
            /\ (best = NULL \/ mem[k].size < mem[best].size)
         THEN BestFitScan(mem, size, k + 1, k)
         ELSE BestFitScan(mem, size, k + 1, best)

\* The block list after best_fit was given to process p at time now:
\* the whole block within the slack, the low end of a split otherwise.
PlaceWhole(mem, b, p, now) ==
    [mem EXCEPT ![b] = [@ EXCEPT !.is_free = FALSE, !.process_id = p.pid,
                                 !.arrival_time = p.arrival_time,
                                 !.allocation_time = now]]

\* PlaceInBlock splitting every block larger than the request.
PlaceInBlockNoSlack(mem, b, p, now) ==
    IF mem[b].size <= p.size
    THEN PlaceWhole(mem, b, p, now)
    ELSE InsertAfter([mem EXCEPT ![b] = [@ EXCEPT !.size = p.size,
                                                  !.is_free = FALSE,
                                                  !.process_id = p.pid,
                                                  !.arrival_time = p.arrival_time,
                                                  !.allocation_time = now]],
                     b,
                     [start_address |-> mem[b].start_address + p.size,
                      size |-> mem[b].size - p.size, is_free |-> TRUE,
                      process_id |-> -1, arrival_time |-> -1,
                      allocation_time |-> -1])

PlaceInBlock(mem, b, p, now) ==
    IF mem[b].size <= p.size + SLACK
    THEN PlaceWhole(mem, b, p, now)
    ELSE LET new_block ==
                 [start_address |-> mem[b].start_address + p.size,
                  size |-> mem[b].size - p.size, is_free |-> TRUE,
                  process_id |-> -1, arrival_time |-> -1,
                  allocation_time |-> -1]
             taken == [mem[b] EXCEPT !.size = p.size, !.is_free = FALSE,
                                     !.process_id = p.pid,
                                     !.arrival_time = p.arrival_time,
                                     !.allocation_time = now]
         IN  InsertAfter([mem EXCEPT ![b] = taken], b, new_block)

\* "process->waiting_time = current_time - process->arrival_time".
WaitingTimeSwapped(now, p) == p.arrival_time - now

WaitingTime(now, p) == now - p.arrival_time

\* allocate_memory(&processes[i]); st.ret is the value returned.
allocate_memory(st, i) ==
    LET p == st.processes[i]
        mem == st.memory_head
        best_fit == BestFitScan(mem, p.size, 1, NULL)
    IN  IF best_fit = NULL
        THEN [st EXCEPT
                !.stats.failed_allocations = @ + 1,
                !.ret = FALSE,
                !.log = Append(@, LogEntry("allocate_memory", i, p.pid, FALSE,
                                           NULL, mem, mem, mem))]
        ELSE LET mem2 == PlaceInBlock(mem, best_fit, p, st.current_time)
                 wait == WaitingTime(st.current_time, p)
             IN  [st EXCEPT
                    !.memory_head = mem2,
                    !.processes[i] =
                        [@ EXCEPT !.allocated = TRUE,
                                  !.allocation_time = st.current_time,
                                  !.memory_address = mem[best_fit].start_address,
                                  !.remaining_time = p.execution_time,
                                  !.waiting_time = wait],
                    !.stats.max_waiting_time = Max(@, wait),
                    !.allocated_processes = Append(@, p.pid),
                    !.stats.successful_allocations = @ + 1,
                    !.ret = TRUE,
                    !.log = Append(@, LogEntry("allocate_memory", i, p.pid,
                                               TRUE, best_fit, mem, mem2, mem2))]

(***************************************************************************)
(* merge_free_blocks: k is the index of `current`; after a merge current   *)
(* is not advanced.                                                        *)
(***************************************************************************)
MergeTwoDropping(mem, k) == RemoveAt(mem, k + 1)

MergeTwo(mem, k) ==
    RemoveAt([mem EXCEPT ![k].size = @ + mem[k + 1].size], k + 1)

RECURSIVE MergeFrom(_, _)
MergeFromSkipping(mem, k) ==
    IF k >= Len(mem) THEN mem
    ELSE IF mem[k].is_free /\ mem[k + 1].is_free
         THEN MergeFrom(MergeTwo(mem, k), k + 1)
         ELSE MergeFrom(mem, k + 1)

MergeFrom(mem, k) ==
    IF k >= Len(mem) THEN mem
    ELSE IF mem[k].is_free /\ mem[k + 1].is_free
         THEN MergeFrom(MergeTwo(mem, k), k)
         ELSE MergeFrom(mem, k + 1)

merge_free_blocksFromSecond(mem) == MergeFrom(mem, 2)

merge_free_blocks(mem) == MergeFrom(mem, 1)

(***************************************************************************)
(* deallocate_memory(pid).                                                 *)
(***************************************************************************)
\* Index of the first used block owned by pid, or NULL.
BlockOf(mem, pid) ==
    LET hits == {k \in 1..Len(mem) : ~mem[k].is_free /\ mem[k].process_id = pid}
    IN  IF hits = {} THEN NULL
        ELSE CHOOSE k \in hits : \A j \in hits : k <= j

\* Index of the first entry of allocated_processes equal to pid, or NULL.
IndexOf(list, pid) ==
    LET hits == {k \in 1..Len(list) : list[k] = pid}
    IN  IF hits = {} THEN NULL
        ELSE CHOOSE k \in hits : \A j \in hits : k <= j

\* FreeBlockAt leaving the block in use.
FreeBlockAtLeavingUsed(mem, b) == mem

FreeBlockAt(mem, b) ==
    [mem EXCEPT ![b] = [@ EXCEPT !.is_free = TRUE, !.process_id = -1,
                                 !.allocation_time = -1]]

deallocate_memoryShrinking(st, pid) ==
    LET mem == st.memory_head
        b == BlockOf(mem, pid)
        proc == get_process_by_pid(st.processes, pid)
    IN  IF b = NULL
        THEN [st EXCEPT
                !.allocated_processes =
                    IF Len(@) = 0 THEN @ ELSE SubSeq(@, 1, Len(@) - 1),
                !.log = Append(@, LogEntry("deallocate_memory", proc, pid,
                                           FALSE, NULL, mem, mem, mem))]
        ELSE LET freed == FreeBlockAt(mem, b)
                 i == IndexOf(st.allocated_processes, pid)
                 alloc2 == IF i = NULL THEN st.allocated_processes
                           ELSE RemoveAt(st.allocated_processes, i)
                 completes == proc # NULL
                              /\ ~st.processes[proc].completed
                              /\ st.processes[proc].remaining_time <= 0
                 merged == merge_free_blocks(freed)
             IN  [st EXCEPT
                    !.memory_head = merged,
                    !.allocated_processes = alloc2,
                    !.processes =
                        IF completes
                        THEN [@ EXCEPT ![proc].completed = TRUE]
                        ELSE @,
                    !.stats.completed_processes =
                        IF completes THEN @ + 1 ELSE @,
                    !.log = Append(@, LogEntry("deallocate_memory", proc, pid,
                                               TRUE, b, mem, freed, merged))]

deallocate_memory(st, pid) ==
    LET mem == st.memory_head
        b == BlockOf(mem, pid)
        proc == get_process_by_pid(st.processes, pid)
    IN  IF b = NULL
        THEN [st EXCEPT
                !.log = Append(@, LogEntry("deallocate_memory", proc, pid,
                                           FALSE, NULL, mem, mem, mem))]
        ELSE LET freed == FreeBlockAt(mem, b)
                 i == IndexOf(st.allocated_processes, pid)
                 alloc2 == IF i = NULL THEN st.allocated_processes
                           ELSE RemoveAt(st.allocated_processes, i)
                 completes == proc # NULL
                              /\ ~st.processes[proc].completed
                              /\ st.processes[proc].remaining_time <= 0
                 merged == merge_free_blocks(freed)
             IN  [st EXCEPT
                    !.memory_head = merged,
                    !.allocated_processes = alloc2,
                    !.processes =
                        IF completes
                        THEN [@ EXCEPT ![proc].completed = TRUE]
                        ELSE @,
                    !.stats.completed_processes =
                        IF completes THEN @ + 1 ELSE @,
                    !.log = Append(@, LogEntry("deallocate_memory", proc, pid,
                                               TRUE, b, mem, freed, merged))]

(***************************************************************************)
(* check_waiting_processes: i is the (1-based) loop index; a success       *)
(* shifts the queue left and leaves i in place.                            *)
(***************************************************************************)
RECURSIVE WaitingScan(_, _)
WaitingScanSkipping(st, i) ==
    IF i > Len(st.waiting_queue) THEN st
    ELSE LET st2 == allocate_memory(st, st.waiting_queue[i])
         IN  IF st2.ret
             THEN WaitingScan([st2 EXCEPT !.waiting_queue = RemoveAt(@, i),
                                          !.allocated_from_queue = @ + 1],
                              i + 1)
             ELSE WaitingScan(st2, i + 1)

\* WaitingScan taking a process whose retry failed off the queue.
WaitingScanDropping(st, i) ==
    IF i > Len(st.waiting_queue) THEN st
    ELSE LET st2 == allocate_memory(st, st.waiting_queue[i])
         IN  WaitingScan([st2 EXCEPT
                             !.waiting_queue = RemoveAt(@, i),
                             !.allocated_from_queue =
                                 IF st2.ret THEN @ + 1 ELSE @], i)

WaitingScan(st, i) ==
    IF i > Len(st.waiting_queue) THEN st
    ELSE LET st2 == allocate_memory(st, st.waiting_queue[i])
         IN  IF st2.ret
             THEN WaitingScan([st2 EXCEPT !.waiting_queue = RemoveAt(@, i),
                                          !.allocated_from_queue = @ + 1], i)
             ELSE WaitingScan(st2, i + 1)

\* The entry of the history variable closing one call: `at` is
\* allocated_from_queue, `ok` whether the count is printed.
WaitingReport(st, done) ==
    [done EXCEPT
        !.log = Append(@, LogEntry("check_waiting_processes", NULL, NULL,
                                   done.allocated_from_queue > 0,
                                   done.allocated_from_queue,
                                   st.memory_head, st.memory_head,
                                   done.memory_head))]

\* check_waiting_processes giving up once allocations have failed more often
\* than there are processes.
check_waiting_processesUnlessFailed(st) ==
    IF Len(st.waiting_queue) = 0 \/ st.stats.failed_allocations > NumProcs
    THEN st
    ELSE WaitingReport(st, WaitingScan([st EXCEPT !.allocated_from_queue = 0],
                                       1))

check_waiting_processes(st) ==
    IF Len(st.waiting_queue) = 0 THEN st
    ELSE WaitingReport(st, WaitingScan([st EXCEPT !.allocated_from_queue = 0],
                                       1))

(***************************************************************************)
(* check_process_completion: i is the (1-based) index into                 *)
(* allocated_processes; after a deallocation i is not advanced.            *)
(***************************************************************************)
RECURSIVE CompletionScan(_, _)
CompletionScanLate(st, i) ==
    IF i > Len(st.allocated_processes) THEN st
    ELSE LET pid == st.allocated_processes[i]
             proc == get_process_by_pid(st.processes, pid)
         IN  IF proc # NULL /\ ~st.processes[proc].completed
             THEN LET st1 == [st EXCEPT !.processes[proc].remaining_time = @ - 1]
                  IN  IF st1.processes[proc].remaining_time < 0
                      THEN CompletionScan(deallocate_memory(st1, pid), i)
                      ELSE CompletionScan(st1, i + 1)
             ELSE CompletionScan(st, i + 1)

CompletionScan(st, i) ==
    IF i > Len(st.allocated_processes) THEN st
    ELSE LET pid == st.allocated_processes[i]
             proc == get_process_by_pid(st.processes, pid)
         IN  IF proc # NULL /\ ~st.processes[proc].completed
             THEN LET st1 == [st EXCEPT !.processes[proc].remaining_time = @ - 1]
                  IN  IF st1.processes[proc].remaining_time <= 0
                      THEN CompletionScan(deallocate_memory(st1, pid), i)
                      ELSE CompletionScan(st1, i + 1)
             ELSE CompletionScan(st, i + 1)

check_process_completion(st) == CompletionScan(st, 1)

(***************************************************************************)
(* simulate_time_step, add_process, display_memory_state.                  *)
(***************************************************************************)
RECURSIVE Pow2(_)
Pow2(n) == IF n = 0 THEN 1 ELSE 2 * Pow2(n - 1)

\* num / 2^exp with the common factors of two removed.
RECURSIVE Halved(_)
Halved(u) ==
    IF u.exp > 0 /\ u.num % 2 = 0
    THEN Halved([num |-> u.num \div 2, exp |-> u.exp - 1])
    ELSE u

\* "(stats.memory_utilization + utilization) / 2.0", utilization being
\* total_used / total_memory_size.
Averaged(u, total_used) ==
    Halved([num |-> u.num + total_used * Pow2(u.exp), exp |-> u.exp + 1])

\* calculate_memory_utilization: total_used is the sum of the sizes of the
\* blocks that are not free; utilization = total_used / total_memory_size is
\* taken as it is when stats.memory_utilization is 0 and averaged with it
\* otherwise.  The sample is also recorded in the history variable (`at` is
\* total_used, with the block list it was computed from).
calculate_memory_utilization(st) ==
    LET total_used ==
            SumSizes(SelectSeq(st.memory_head, LAMBDA b : ~b.is_free))
    IN  [st EXCEPT
            !.stats.memory_utilization =
                IF @.num = 0 THEN [num |-> total_used, exp |-> 0]
                ELSE Averaged(@, total_used),
            !.log = Append(@, LogEntry("calculate_memory_utilization", NULL,
                                       NULL, TRUE, total_used, st.memory_head,
                                       st.memory_head, st.memory_head))]

\* simulate_time_step advancing the clock by two.
simulate_time_stepSkippingTime(st) ==
    calculate_memory_utilization(
        check_waiting_processes(
            check_process_completion([st EXCEPT !.current_time = @ + 2])))

\* simulate_time_step retrying the waiting queue before the completions.
simulate_time_stepRetryFirst(st) ==
    calculate_memory_utilization(
        check_process_completion(
            check_waiting_processes([st EXCEPT !.current_time = @ + 1])))

simulate_time_step(st) ==
    calculate_memory_utilization(
        check_waiting_processes(
            check_process_completion([st EXCEPT !.current_time = @ + 1])))

add_processInFront(st, i) ==
    IF st.processes[i].arrival_time > st.current_time
    THEN [st EXCEPT !.ret = FALSE]
    ELSE LET st2 == allocate_memory(st, i)
         IN  IF st2.ret THEN st2
             ELSE [st2 EXCEPT !.waiting_queue = <<i>> \o @]

add_process(st, i) ==
    IF st.processes[i].arrival_time > st.current_time
    THEN [st EXCEPT !.ret = FALSE]
    ELSE LET st2 == allocate_memory(st, i)
         IN  IF st2.ret THEN st2
             ELSE [st2 EXCEPT !.waiting_queue = Append(@, i)]

FreeBlockCount(mem) == Cardinality({k \in 1..Len(mem) : mem[k].is_free})

\* display_memory_state changes one thing: the fragmentation counter.
display_memory_state(st) ==
    IF FreeBlockCount(st.memory_head) > 1
    THEN [st EXCEPT !.stats.total_fragmentation_events = @ + 1]
    ELSE st

(***************************************************************************)
(* The state as a record the operators above transform, and its commit.    *)
(***************************************************************************)
Cur ==
    [memory_head |-> memory_head, processes |-> processes,
     waiting_queue |-> waiting_queue,
     allocated_processes |-> allocated_processes,
     current_time |-> current_time, stats |-> stats,
     log |-> <<>>, ret |-> FALSE, allocated_from_queue |-> 0]

Commit(st) ==
    /\ memory_head' = st.memory_head
    /\ processes' = st.processes
    /\ waiting_queue' = st.waiting_queue
    /\ allocated_processes' = st.allocated_processes
    /\ current_time' = st.current_time
    /\ stats' = st.stats
    /\ log' = st.log

(***************************************************************************)
(* Initial state: memory initialised, the input loaded, time 0.            *)
(***************************************************************************)
Procs == 1..NumProcs

\* The inputs: process i has pid i (create_sample_processes numbers them
\* from 1), any size of ProcSizes, arrival and execution time; the array is
\* in any order of arrival (a process file need not be sorted).
Inputs ==
    {[i \in Procs |-> NewProcess(i, ar[i], sz[i], ex[i])] :
        ar \in [Procs -> ArrivalTimes],
        sz \in [Procs -> ProcSizes],
        ex \in [Procs -> ExecTimes]}

\* test.c main: max_time starts at 0 and is raised to every later arrival.
LastArrival(procs) ==
    CHOOSE t \in ArrivalTimes \cup {0} :
        /\ \A i \in DOMAIN procs : procs[i].arrival_time <= t
        /\ t = 0 \/ \E i \in DOMAIN procs : procs[i].arrival_time = t

\* The inputs made of one process, of any size up to one above the pool.
SingleInputs ==
    {<<NewProcess(1, ar, sz, ex)>> :
        ar \in ArrivalTimes, sz \in 1..(MemorySize + 1), ex \in ExecTimes}

InitBlockWith(inputs) ==
    /\ variant \in {"test", "tes3"}
    /\ memory_head = <<InitialBlock(MemorySize)>>
    /\ freeList = <<>>
    /\ total_used_memory = 0
    /\ processes \in inputs
    /\ waiting_queue = <<>>
    /\ allocated_processes = <<>>
    /\ current_time = 0
    /\ stats = ZeroStats
    /\ next_process_index = 1
    /\ max_time = IF variant = "test" THEN LastArrival(processes) + ExtraTime
                  ELSE 0
    /\ pc = "run"
    /\ frame_table = <<>>
    /\ frame_owner = <<>>
    /\ total_memory_size = MemorySize
    /\ threads = IdleThreads
    /\ log = <<>>

InitBlock == InitBlockWith(Inputs)

(***************************************************************************)
(* read_processes_from_file.  A file is a sequence of lines "pid arrival   *)
(* size execution_time"; the values may be anything an int can hold, here  *)
(* a valid and an invalid value of each.                                   *)
(***************************************************************************)
FileArrivals == {-1, 0}

FileSizes == {-1, 0, 1}

FileExecTimes == {0, 1}

\* The files of 1..MaxLines lines; line k carries pid k.
Files ==
    UNION {{[k \in 1..n |-> <<k, ar[k], sz[k], ex[k]>>] :
               ar \in [1..n -> FileArrivals],
               sz \in [1..n -> FileSizes],
               ex \in [1..n -> FileExecTimes]} : n \in 1..MaxLines}

\* A line as the scanf of read_processes_from_file leaves it in the table.
ProcessOfLine(line) == NewProcess(line[1], line[2], line[3], line[4])

\* test.c: every line that scans as four integers is stored.
read_processes_from_file(file) ==
    [k \in 1..Len(file) |-> ProcessOfLine(file[k])]

\* tes3.c: "Validate data" skips a line with pid <= 0, arrival < 0,
\* size <= 0 or exec_time <= 0.
ValidLine(line) ==
    ~(line[1] <= 0 \/ line[2] < 0 \/ line[3] <= 0 \/ line[4] <= 0)

tes3_read_processes_from_file(file) ==
    LET kept == SelectSeq(file, ValidLine)
    IN  [k \in 1..Len(kept) |-> ProcessOfLine(kept[k])]

\* The run of test.c or tes3.c on a process file.  A file that yields no
\* process starts no run: test.c generates a sample instead and tes3.c's
\* menu refuses to start.
InitRead ==
    \E file \in Files :
        /\ \/ variant = "test" /\ processes = read_processes_from_file(file)
           \/ variant = "tes3"
              /\ processes = tes3_read_processes_from_file(file)
        /\ Len(processes) > 0
        /\ memory_head = <<InitialBlock(MemorySize)>>
        /\ freeList = <<>>
        /\ total_used_memory = 0
        /\ waiting_queue = <<>>
        /\ allocated_processes = <<>>
        /\ current_time = 0
        /\ stats = ZeroStats
        /\ next_process_index = 1
        /\ max_time = IF variant = "test"
                      THEN LastArrival(processes) + ExtraTime ELSE 0
        /\ pc = "run"
        /\ frame_table = <<>>
        /\ frame_owner = <<>>
        /\ total_memory_size = MemorySize
        /\ threads = IdleThreads
        /\ log = <<>>

(***************************************************************************)
(* test.c main, the simulation loop.                                       *)
(***************************************************************************)
\* process_count (test.c) / num_processes (tes3.c): the size of the input.
process_count == Len(processes)

ArrivalDue ==
    /\ next_process_index <= process_count
    /\ processes[next_process_index].arrival_time <= current_time

AllDone ==
    /\ next_process_index > process_count
    /\ Len(waiting_queue) = 0
    /\ Len(allocated_processes) = 0

\* The inner while: add_process of the next arrived process, then display.
TestAddProcess ==
    /\ variant = "test" /\ pc = "run"
    /\ current_time <= max_time
    /\ ArrivalDue
    /\ Commit(display_memory_state(add_process(Cur, next_process_index)))
    /\ next_process_index' = next_process_index + 1
    /\ UNCHANGED <<variant, total_memory_size, frame_table, frame_owner, threads, freeList, total_used_memory, max_time, pc>>

\* simulate_time_step, and the display every DisplayPeriod time units.
TestTick ==
    /\ variant = "test" /\ pc = "run"
    /\ current_time <= max_time
    /\ ~ArrivalDue
    /\ ~AllDone
    /\ LET st == simulate_time_step(Cur)
       IN  Commit(IF st.current_time % DisplayPeriod = 0
                  THEN display_memory_state(st) ELSE st)
    /\ UNCHANGED <<variant, total_memory_size, frame_table, frame_owner, threads, freeList, total_used_memory, next_process_index,
                   max_time, pc>>

\* The loop ends (break, or current_time > max_time); the final display.
TestFinish ==
    /\ variant = "test" /\ pc = "run"
    /\ ~ArrivalDue
    /\ current_time > max_time \/ AllDone
    /\ Commit(display_memory_state(Cur))
    /\ pc' = "done"
    /\ UNCHANGED <<variant, total_memory_size, frame_table, frame_owner, threads, freeList, total_used_memory, next_process_index,
                   max_time>>

(***************************************************************************)
(* tes3.c main, menu choice 5: the simulation loop.                        *)
(***************************************************************************)
Tes3AddProcess ==
    /\ variant = "tes3" /\ pc = "run"
    /\ ~AllDone
    /\ ArrivalDue
    /\ Commit(add_process(Cur, next_process_index))
    /\ next_process_index' = next_process_index + 1
    /\ UNCHANGED <<variant, total_memory_size, frame_table, frame_owner, threads, freeList, total_used_memory, max_time, pc>>

Tes3Tick ==
    /\ variant = "tes3" /\ pc = "run"
    /\ ~AllDone
    /\ ~ArrivalDue
    /\ current_time < MaxTime
    /\ Commit(display_memory_state(simulate_time_step(Cur)))
    /\ UNCHANGED <<variant, total_memory_size, frame_table, frame_owner, threads, freeList, total_used_memory, next_process_index,
                   max_time, pc>>

Tes3Finish ==
    /\ variant = "tes3" /\ pc = "run"
    /\ AllDone
    /\ pc' = "done"
    /\ log' = <<>>
    /\ UNCHANGED <<variant, total_memory_size, frame_table, frame_owner, threads, memory_head, freeList, total_used_memory,
                   processes, waiting_queue,
                   allocated_processes, current_time, stats,
                   next_process_index, max_time>>

\* Menu choice 5 chosen again once a run has ended: "Initialize simulation
\* state" resets the clock, the statistics, both arrays' sizes and the head
\* block (its next, size and is_free only); current_process restarts at 0.
\* The process table is what the last run left.
Tes3Rerun ==
    /\ variant = "tes3" /\ pc = "done"
    /\ current_time' = 0
    /\ stats' = ZeroStats
    /\ waiting_queue' = <<>>
    /\ allocated_processes' = <<>>
    /\ memory_head' = <<[memory_head[1] EXCEPT !.size = MemorySize,
                                               !.is_free = TRUE]>>
    /\ next_process_index' = 1
    /\ pc' = "run"
    /\ log' = <<>>
    /\ UNCHANGED <<variant, total_memory_size, frame_table, frame_owner, threads, freeList,
                   total_used_memory, processes, max_time>>

(***************************************************************************)
(* final.c: a list of free blocks only, in list order (not address order). *)
(***************************************************************************)
\* A process record as main (case 1) fills it in.
FinalProcess(id, size, arrival, exec) ==
    [id |-> id, size |-> size, allocated |-> 0, start_address |-> -1,
     arrival_time |-> arrival, execution_time |-> exec,
     remaining_time |-> exec]

\* The best-fit scan of final.c's allocate_memory over the free list.
RECURSIVE FinalBestFitScan(_, _, _, _)
FinalBestFitScanLast(list, size, k, best) ==
    IF k > Len(list) THEN best
    ELSE IF list[k].size >= size
            /\ (best = NULL \/ list[k].size <= list[best].size)
         THEN FinalBestFitScan(list, size, k + 1, k)
         ELSE FinalBestFitScan(list, size, k + 1, best)

FinalBestFitScan(list, size, k, best) ==
    IF k > Len(list) THEN best
    ELSE IF list[k].size >= size
            /\ (best = NULL \/ list[k].size < list[best].size)
         THEN FinalBestFitScan(list, size, k + 1, k)
         ELSE FinalBestFitScan(list, size, k + 1, best)

\* The free list after `size` units were cut from the low end of block b;
\* a block left with size 0 is unlinked.
FinalTakeKeepingStart(list, b, size) ==
    IF list[b].size - size = 0
    THEN RemoveAt(list, b)
    ELSE [list EXCEPT ![b] = [start |-> @.start, size |-> @.size - size]]

\* FinalTake leaving the emptied block in the list.
FinalTakeKeepingEmpty(list, b, size) ==
    [list EXCEPT ![b] = [start |-> @.start + size, size |-> @.size - size]]

FinalTake(list, b, size) ==
    IF list[b].size - size = 0
    THEN RemoveAt(list, b)
    ELSE [list EXCEPT ![b] = [start |-> @.start + size, size |-> @.size - size]]

\* allocate_memory(&processes[i], num_processes) of final.c.
final_allocate_memory(st, i) ==
    LET p == st.processes[i]
        list == st.freeList
        best_fit == FinalBestFitScan(list, p.size, 1, NULL)
    IN  IF best_fit = NULL
        THEN [st EXCEPT
                !.log = Append(@, LogEntry("allocate_memory", i, p.id, FALSE,
                                           NULL, list, list, list))]
        ELSE LET list2 == FinalTake(list, best_fit, p.size)
             IN  [st EXCEPT
                    !.freeList = list2,
                    !.processes[i] =
                        [@ EXCEPT !.start_address = list[best_fit].start,
                                  !.allocated = 1],
                    !.log = Append(@, LogEntry("allocate_memory", i, p.id, TRUE,
                                               best_fit, list, list2, list2))]

\* merge_free_blocks of final.c: merges list neighbours current, next with
\* current.start + current.size = next.start; current stays after a merge.
FinalMergeTwo(list, k) ==
    RemoveAt([list EXCEPT ![k].size = @ + list[k + 1].size], k + 1)

RECURSIVE FinalMergeFrom(_, _)
FinalMergeFromSkipping(list, k) ==
    IF k >= Len(list) THEN list
    ELSE IF list[k].start + list[k].size = list[k + 1].start
         THEN FinalMergeFrom(FinalMergeTwo(list, k), k + 1)
         ELSE FinalMergeFrom(list, k + 1)

FinalMergeFrom(list, k) ==
    IF k >= Len(list) THEN list
    ELSE IF list[k].start + list[k].size = list[k + 1].start
         THEN FinalMergeFrom(FinalMergeTwo(list, k), k)
         ELSE FinalMergeFrom(list, k + 1)

final_merge_free_blocks(list) == FinalMergeFrom(list, 1)

\* Index of the first allocated process with this id, or NULL.
FinalFind(procs, id) ==
    LET hits == {i \in 1..Len(procs) : procs[i].id = id /\ procs[i].allocated # 0}
    IN  IF hits = {} THEN NULL
        ELSE CHOOSE i \in hits : \A j \in hits : i <= j

\* deallocate_memory(process_id, num_processes) of final.c: the freed range
\* is pushed at the head of the free list, then merge_free_blocks.
final_deallocate_memory(st, id) ==
    LET i == FinalFind(st.processes, id)
        list == st.freeList
    IN  IF i = NULL
        THEN [st EXCEPT
                !.log = Append(@, LogEntry("deallocate_memory", NULL, id, FALSE,
                                           NULL, list, list, list))]
        ELSE LET new_block == [start |-> st.processes[i].start_address,
                               size |-> st.processes[i].size]
                 pushed == <<new_block>> \o list
                 merged == final_merge_free_blocks(pushed)
             IN  [st EXCEPT
                    !.processes[i] = [@ EXCEPT !.allocated = 0,
                                               !.start_address = -1],
                    !.freeList = merged,
                    !.log = Append(@, LogEntry("deallocate_memory", i, id, TRUE,
                                               1, list, pushed, merged))]

\* tick(), first loop: i runs over processes[0..num_processes).
RECURSIVE FinalRunScan(_, _)
FinalRunScan(st, i) ==
    IF i > Len(st.processes) THEN st
    ELSE LET p == st.processes[i]
         IN  IF p.allocated # 0 /\ p.remaining_time > 0
             THEN LET st1 == [st EXCEPT !.processes[i].remaining_time = @ - 1]
                  IN  IF st1.processes[i].remaining_time = 0
                      THEN LET st2 == final_deallocate_memory(st1, p.id)
                           IN  FinalRunScan(
                                   [st2 EXCEPT !.total_used_memory = @ - p.size],
                                   i + 1)
                      ELSE FinalRunScan(st1, i + 1)
             ELSE FinalRunScan(st, i + 1)

\* tick(), second loop: i runs over the waiting queue; a process that fits
\* the free total is moved to processes[] and the queue shifted left.
RECURSIVE FinalWaitingScan(_, _)
FinalWaitingScan(st, i) ==
    IF i > Len(st.waiting_queue) THEN st
    ELSE LET w == st.waiting_queue[i]
         IN  IF w.size <= MemorySize - st.total_used_memory
             THEN LET st1 == [st EXCEPT !.processes = Append(@, w)]
                      st2 == final_allocate_memory(st1, Len(st1.processes))
                  IN  FinalWaitingScan(
                          [st2 EXCEPT !.total_used_memory = @ + w.size,
                                      !.waiting_queue = RemoveAt(@, i)],
                          i)
             ELSE FinalWaitingScan(st, i + 1)

tick(st) == FinalWaitingScan(FinalRunScan(st, 1), 1)

\* main, case 1, after the numbers were read.
final_add(st, id, size, arrival, exec) ==
    IF size > MemorySize - st.total_used_memory
    THEN [st EXCEPT !.waiting_queue =
                        Append(@, FinalProcess(id, size, arrival, exec))]
    ELSE LET st1 == [st EXCEPT !.processes =
                                   Append(@, FinalProcess(id, size, arrival, exec))]
             st2 == final_allocate_memory(st1, Len(st1.processes))
         IN  [st2 EXCEPT !.total_used_memory = @ + size]

FinalCur ==
    [freeList |-> freeList, processes |-> processes,
     waiting_queue |-> waiting_queue,
     total_used_memory |-> total_used_memory, log |-> <<>>]

FinalCommit(st) ==
    /\ freeList' = st.freeList
    /\ processes' = st.processes
    /\ waiting_queue' = st.waiting_queue
    /\ total_used_memory' = st.total_used_memory
    /\ log' = st.log

\* initialize_memory of final.c; no process entered yet.
InitFinal ==
    /\ variant = "final"
    /\ memory_head = <<>>
    /\ freeList = <<[start |-> 0, size |-> MemorySize]>>
    /\ total_used_memory = 0
    /\ processes = <<>>
    /\ waiting_queue = <<>>
    /\ allocated_processes = <<>>
    /\ current_time = 0
    /\ stats = ZeroStats
    /\ next_process_index = 1
    /\ max_time = 0
    /\ pc = "run"
    /\ frame_table = <<>>
    /\ frame_owner = <<>>
    /\ total_memory_size = MemorySize
    /\ threads = IdleThreads
    /\ log = <<>>

\* The number of processes entered so far (process_entry_number - 1).
Entered == Len(processes) + Len(waiting_queue)

\* Menu choice 1 with a new id and a size of `sizes`, executed with no tick
\* in between; at most `entries` processes are entered.
FinalAdd(entries, sizes) ==
    /\ variant = "final"
    /\ Entered < entries
    /\ total_used_memory < MemorySize
    /\ \E size \in sizes, exec \in ExecTimes :
           FinalCommit(final_add(FinalCur, Entered + 1, size, 0, exec))
    /\ UNCHANGED <<variant, total_memory_size, frame_table, frame_owner, threads, memory_head, allocated_processes, current_time,
                   stats, next_process_index, max_time, pc>>

FinalAddProcess == FinalAdd(MaxEntries, ProcSizes)

\* The user enters one process only, of any size up to one above the pool.
FinalAddSingle == FinalAdd(1, 1..(MemorySize + 1))

\* One tick() of clock_tick_thread, executed with no menu action in between.
FinalTick ==
    /\ variant = "final"
    /\ FinalCommit(tick(FinalCur))
    /\ UNCHANGED <<variant, total_memory_size, frame_table, frame_owner, threads, memory_head, allocated_processes, current_time,
                   stats, next_process_index, max_time, pc>>

(***************************************************************************)
(* final.c with its two threads: main (menu choice 1) and                  *)
(* clock_tick_thread run with no lock between them, so their statements    *)
(* interleave.  main's add sequence is cut after the process record is     *)
(* filled and after allocate_memory; tick() is cut between its two loops.  *)
(* threads.num_processes is main's num_processes, which tick() reaches     *)
(* through the pointer it was given.                                       *)
(***************************************************************************)
\* A slot of the global array processes[] never written: all zero.
FinalZero ==
    [id |-> 0, size |-> 0, allocated |-> 0, start_address |-> 0,
     arrival_time |-> 0, execution_time |-> 0, remaining_time |-> 0]

\* processes[n] = p (n 0-based); the slots up to n exist, zero if unwritten.
SetSlot(procs, n, p) ==
    [k \in 1..Max(Len(procs), n + 1) |->
        IF k = n + 1 THEN p
        ELSE IF k <= Len(procs) THEN procs[k] ELSE FinalZero]

\* processes[0..n) as the array holds it: the unwritten slots are zero.
PadTo(procs, n) ==
    [k \in 1..Max(Len(procs), n) |->
        IF k <= Len(procs) THEN procs[k] ELSE FinalZero]

ThreadCur ==
    [freeList |-> freeList, processes |-> processes,
     waiting_queue |-> waiting_queue,
     total_used_memory |-> total_used_memory,
     num_processes |-> threads.num_processes, log |-> <<>>]

ThreadCommit(st, atMain, atTick, size, entered) ==
    /\ freeList' = st.freeList
    /\ processes' = st.processes
    /\ waiting_queue' = st.waiting_queue
    /\ total_used_memory' = st.total_used_memory
    /\ threads' = [main |-> atMain, tick |-> atTick,
                   num_processes |-> st.num_processes, size |-> size,
                   entered |-> entered]
    /\ log' = st.log
    /\ UNCHANGED <<variant, total_memory_size, memory_head, allocated_processes, current_time,
                   stats, next_process_index, max_time, pc, frame_table,
                   frame_owner>>

\* main, case 1, up to the filled record: the process goes to the waiting
\* queue, or processes[num_processes] is filled in.
ThreadMainEnter ==
    /\ variant = "final"
    /\ threads.main = "menu"
    /\ threads.entered < MaxEntries
    /\ total_used_memory < MemorySize
    /\ \E size \in ProcSizes, exec \in ExecTimes :
           LET st == ThreadCur
               p == FinalProcess(threads.entered + 1, size, 0, exec)
           IN  IF size > MemorySize - total_used_memory
               THEN ThreadCommit([st EXCEPT !.waiting_queue = Append(@, p)],
                                 "menu", threads.tick, 0, threads.entered + 1)
               ELSE ThreadCommit(
                        [st EXCEPT !.processes =
                                       SetSlot(@, st.num_processes, p)],
                        "filled", threads.tick, size, threads.entered)

\* main: allocate_memory(&processes[num_processes], num_processes).
ThreadMainAllocate ==
    /\ variant = "final"
    /\ threads.main = "filled"
    /\ LET st == ThreadCur
           st1 == [st EXCEPT !.processes =
                                 SetSlot(@, st.num_processes,
                                         IF st.num_processes < Len(@)
                                         THEN @[st.num_processes + 1]
                                         ELSE FinalZero)]
       IN  ThreadCommit(final_allocate_memory(st1, st1.num_processes + 1),
                        "placed", threads.tick, threads.size, threads.entered)

\* main: total_used_memory += size; num_processes++.
ThreadMainAccount ==
    /\ variant = "final"
    /\ threads.main = "placed"
    /\ ThreadCommit([ThreadCur EXCEPT
                        !.total_used_memory = @ + threads.size,
                        !.processes = PadTo(@, threads.num_processes + 1),
                        !.num_processes = @ + 1],
                    "menu", threads.tick, 0, threads.entered + 1)

\* tick(), first loop: i runs over processes[0..*num_processes).
RECURSIVE ThreadRunScan(_, _)
ThreadRunScan(st, i) ==
    IF i > st.num_processes THEN st
    ELSE LET p == st.processes[i]
         IN  IF p.allocated # 0 /\ p.remaining_time > 0
             THEN LET st1 == [st EXCEPT !.processes[i].remaining_time = @ - 1]
                  IN  IF st1.processes[i].remaining_time = 0
                      THEN LET under == [st1 EXCEPT !.processes =
                                             SubSeq(@, 1, st.num_processes)]
                               st2 == final_deallocate_memory(under, p.id)
                               st3 == [st2 EXCEPT !.processes =
                                          @ \o SubSeq(st1.processes,
                                                      st.num_processes + 1,
                                                      Len(st1.processes))]
                           IN  ThreadRunScan(
                                   [st3 EXCEPT !.total_used_memory = @ - p.size],
                                   i + 1)
                      ELSE ThreadRunScan(st1, i + 1)
             ELSE ThreadRunScan(st, i + 1)

\* tick(), second loop: processes[*num_processes] = waiting_queue[i], and
\* so on.
RECURSIVE ThreadWaitingScan(_, _)
ThreadWaitingScan(st, i) ==
    IF i > Len(st.waiting_queue) THEN st
    ELSE LET w == st.waiting_queue[i]
         IN  IF w.size <= MemorySize - st.total_used_memory
             THEN LET st1 == [st EXCEPT !.processes =
                                            SetSlot(@, st.num_processes, w)]
                      st2 == final_allocate_memory(st1, st.num_processes + 1)
                  IN  ThreadWaitingScan(
                          [st2 EXCEPT !.total_used_memory = @ + w.size,
                                      !.num_processes = @ + 1,
                                      !.waiting_queue = RemoveAt(@, i)],
                          i)
             ELSE ThreadWaitingScan(st, i + 1)

\* clock_tick_thread wakes up: tick(), first loop.
ThreadTickRun ==
    /\ variant = "final"
    /\ threads.tick = "idle"
    /\ ThreadCommit(ThreadRunScan(ThreadCur, 1), threads.main, "ran",
                    threads.size, threads.entered)

\* tick(), second loop; the thread goes back to sleep.
ThreadTickRetry ==
    /\ variant = "final"
    /\ threads.tick = "ran"
    /\ ThreadCommit(ThreadWaitingScan(ThreadCur, 1), threads.main, "idle",
                    threads.size, threads.entered)

NextThreads ==
    \/ ThreadMainEnter
    \/ ThreadMainAllocate
    \/ ThreadMainAccount
    \/ ThreadTickRun
    \/ ThreadTickRetry

\* final.c as it runs: main and clock_tick_thread interleaved.
SpecThreads == InitFinal /\ [][NextThreads]_vars

(***************************************************************************)
(* test2.c: the block list for processes up to MAX_PARTITION_SIZE, paging  *)
(* for the others and for those the block list cannot take.                *)
(***************************************************************************)
\* page_table == NULL.
NoPageTable == [process_id |-> -1, total_pages |-> 0, entries |-> <<>>]

\* A process record as read_processes_from_file / create_sample_processes
\* of test2.c leave it.
Test2Process(pid, arrival, size) ==
    [pid |-> pid, size |-> size, arrival_time |-> arrival, allocated |-> FALSE,
     allocation_time |-> -1, memory_address |-> -1, uses_paging |-> FALSE,
     page_table |-> NoPageTable]

\* total_frames = total_memory_size / PAGE_SIZE.
FramesIn(size) == size \div PAGE_SIZE

\* The frames of a pool of MemorySize units.
total_frames == FramesIn(MemorySize)

\* allocate_memory(&processes[i]) of test2.c.
test2_allocate_memory(st, i) ==
    LET p == st.processes[i]
        mem == st.memory_head
        best_fit == BestFitScan(mem, p.size, 1, NULL)
    IN  IF p.size > MaxPartitionSize
        THEN [st EXCEPT !.ret = FALSE]
        ELSE IF best_fit = NULL
        THEN [st EXCEPT
                !.ret = FALSE,
                !.log = Append(@, LogEntry("allocate_memory", i, p.pid, FALSE,
                                           NULL, mem, mem, mem))]
        ELSE LET mem2 == PlaceInBlock(mem, best_fit, p, st.current_time)
             IN  [st EXCEPT
                    !.memory_head = mem2,
                    !.processes[i] =
                        [@ EXCEPT !.allocated = TRUE,
                                  !.allocation_time = st.current_time,
                                  !.memory_address = mem[best_fit].start_address,
                                  !.uses_paging = FALSE],
                    !.allocated_processes = Append(@, p.pid),
                    !.ret = TRUE,
                    !.log = Append(@, LogEntry("allocate_memory", i, p.pid,
                                               TRUE, best_fit, mem, mem2, mem2))]

\* create_page_table(pid, pages_needed).
create_page_table(pid, pages_needed) ==
    [process_id |-> pid, total_pages |-> pages_needed,
     entries |-> [k \in 1..pages_needed |->
                     [page_number |-> k - 1, frame_number |-> -1,
                      is_loaded |-> FALSE]]]

\* The first free frame (0-based) of the total frames swept, or total when
\* all are taken.
FirstFreeFrame(ft, total) ==
    LET free == {j \in 0..(total - 1) : ~ft[j + 1]}
    IN  IF free = {} THEN total
        ELSE CHOOSE j \in free : \A k \in free : j <= k

\* allocate_frames: i is the (1-based) page of the outer loop; r holds the
\* frame table, the owners, the page table and the count of frames given.
RECURSIVE AllocateFramesFrom(_, _)
AllocateFramesFrom(r, i) ==
    IF i > r.page_table.total_pages THEN r
    ELSE LET j == FirstFreeFrame(r.frame_table, r.total_frames)
         IN  IF j = r.total_frames THEN r
             ELSE AllocateFramesFrom(
                      [r EXCEPT
                         !.frame_table[j + 1] = TRUE,
                         !.frame_owner[j + 1] = r.page_table.process_id,
                         !.page_table.entries[i] =
                             [@ EXCEPT !.frame_number = j, !.is_loaded = TRUE],
                         !.allocated_frames = @ + 1],
                      i + 1)

\* allocate_frames giving frames only when every page gets one.
allocate_framesAllOrNothing(st, page_table) ==
    LET r == [frame_table |-> st.frame_table, frame_owner |-> st.frame_owner,
              total_frames |-> FramesIn(st.total_memory_size),
              page_table |-> page_table, allocated_frames |-> 0]
    IN  IF Cardinality({j \in 1..r.total_frames : ~st.frame_table[j]})
               < page_table.total_pages
        THEN r
        ELSE AllocateFramesFrom(r, 1)

\* allocate_frames(page_table, pages_needed) on the tables of st.
allocate_frames(st, page_table) ==
    AllocateFramesFrom([frame_table |-> st.frame_table,
                        frame_owner |-> st.frame_owner,
                        total_frames |-> FramesIn(st.total_memory_size),
                        page_table |-> page_table, allocated_frames |-> 0], 1)

\* allocate_with_paging(&processes[i]).
allocate_with_paging(st, i) ==
    LET p == st.processes[i]
        pages_needed == (p.size + PAGE_SIZE - 1) \div PAGE_SIZE
        r == allocate_frames(st, create_page_table(p.pid, pages_needed))
        entry == [op |-> "allocate_with_paging", proc |-> i, pid |-> p.pid,
                  ok |-> r.allocated_frames > 0, at |-> r.allocated_frames,
                  before |-> st.memory_head, mid |-> st.memory_head,
                  after |-> st.memory_head,
                  free_frames |->
                      Cardinality({j \in 1..FramesIn(st.total_memory_size) :
                                      ~st.frame_table[j]}),
                  pages_needed |-> pages_needed]
    IN  IF r.allocated_frames > 0
        THEN [st EXCEPT
                !.frame_table = r.frame_table,
                !.frame_owner = r.frame_owner,
                !.processes[i] =
                    [@ EXCEPT !.allocated = TRUE,
                              !.allocation_time = st.current_time,
                              !.uses_paging = TRUE,
                              !.page_table = r.page_table],
                !.allocated_processes = Append(@, p.pid),
                !.ret = TRUE,
                !.log = Append(@, entry)]
        ELSE [st EXCEPT !.ret = FALSE, !.log = Append(@, entry)]

\* handle_process choosing by the size alone, with no fallback to paging.
handle_processBySizeOnly(st, i) ==
    IF st.processes[i].size <= MaxPartitionSize
    THEN test2_allocate_memory(st, i)
    ELSE allocate_with_paging(st, i)

\* handle_process(&processes[i]): the block list first, then paging.
handle_process(st, i) ==
    LET st1 == IF st.processes[i].size <= MaxPartitionSize
               THEN test2_allocate_memory(st, i)
               ELSE [st EXCEPT !.ret = FALSE]
    IN  IF st1.ret THEN st1 ELSE allocate_with_paging(st1, i)

\* The first slot of processes[] holding pid and marked allocated, or NULL.
AllocatedSlot(procs, pid, paged) ==
    LET hits == {i \in DOMAIN procs :
                    /\ procs[i].pid = pid /\ procs[i].allocated
                    /\ paged => procs[i].uses_paging}
    IN  IF hits = {} THEN NULL
        ELSE CHOOSE i \in hits : \A j \in hits : i <= j

\* deallocate_paged_process giving back only the first frame of pid.
deallocate_paged_processFirstFrame(st, pid) ==
    LET frames == FramesIn(st.total_memory_size)
        owned == {j \in 1..frames :
                     st.frame_table[j] /\ st.frame_owner[j] = pid}
        first == {j \in owned : \A k \in owned : j <= k}
        i == AllocatedSlot(st.processes, pid, TRUE)
    IN  [st EXCEPT
           !.frame_table = [j \in 1..frames |->
                               IF j \in first THEN FALSE ELSE @[j]],
           !.frame_owner = [j \in 1..frames |->
                               IF j \in first THEN -1 ELSE @[j]],
           !.processes =
               IF i = NULL THEN @
               ELSE [@ EXCEPT ![i].page_table = NoPageTable,
                              ![i].allocated = FALSE]]

\* deallocate_paged_process(pid).
deallocate_paged_process(st, pid) ==
    LET frames == FramesIn(st.total_memory_size)
        owned == {j \in 1..frames :
                     st.frame_table[j] /\ st.frame_owner[j] = pid}
        i == AllocatedSlot(st.processes, pid, TRUE)
    IN  [st EXCEPT
           !.frame_table = [j \in 1..frames |->
                               IF j \in owned THEN FALSE ELSE @[j]],
           !.frame_owner = [j \in 1..frames |->
                               IF j \in owned THEN -1 ELSE @[j]],
           !.processes =
               IF i = NULL THEN @
               ELSE [@ EXCEPT ![i].page_table = NoPageTable,
                              ![i].allocated = FALSE]]

\* deallocate_memory(pid) of test2.c.
test2_deallocate_memory(st, pid) ==
    LET i == AllocatedSlot(st.processes, pid, FALSE)
        mem == st.memory_head
    IN  IF i = NULL
        THEN [st EXCEPT
                !.log = Append(@, LogEntry("deallocate_memory", NULL, pid,
                                           FALSE, NULL, mem, mem, mem))]
        ELSE LET b == BlockOf(mem, pid)
                 freed == IF b = NULL THEN mem ELSE FreeBlockAt(mem, b)
                 merged == IF b = NULL THEN mem ELSE merge_free_blocks(freed)
                 st1 == IF st.processes[i].uses_paging
                        THEN deallocate_paged_process(st, pid)
                        ELSE [st EXCEPT !.memory_head = merged]
                 k == IndexOf(st.allocated_processes, pid)
             IN  [st1 EXCEPT
                    !.processes[i].allocated = FALSE,
                    !.allocated_processes =
                        IF k = NULL THEN @ ELSE RemoveAt(@, k),
                    !.log = Append(@,
                        IF st.processes[i].uses_paging
                        THEN LogEntry("deallocate_memory", i, pid, FALSE, NULL,
                                      mem, mem, mem)
                        ELSE LogEntry("deallocate_memory", i, pid, b # NULL, b,
                                      mem, freed, merged))]

\* check_waiting_processes of test2.c.
RECURSIVE Test2WaitingScan(_, _)
Test2WaitingScan(st, i) ==
    IF i > Len(st.waiting_queue) THEN st
    ELSE LET st2 == handle_process(st, st.waiting_queue[i])
         IN  IF st2.ret
             THEN Test2WaitingScan(
                      [st2 EXCEPT !.waiting_queue = RemoveAt(@, i),
                                  !.allocated_from_queue = @ + 1], i)
             ELSE Test2WaitingScan(st2, i + 1)

test2_check_waiting_processes(st) ==
    IF Len(st.waiting_queue) = 0 THEN st
    ELSE WaitingReport(st, Test2WaitingScan(
                               [st EXCEPT !.allocated_from_queue = 0], 1))

test2_simulate_time_step(st) ==
    test2_check_waiting_processes([st EXCEPT !.current_time = @ + 1])

test2_add_process(st, i) ==
    IF st.processes[i].arrival_time > st.current_time
    THEN [st EXCEPT !.ret = FALSE]
    ELSE LET st2 == handle_process(st, i)
         IN  IF st2.ret THEN st2
             ELSE [st2 EXCEPT !.waiting_queue = Append(@, i), !.ret = FALSE]

Test2Cur ==
    [memory_head |-> memory_head, processes |-> processes,
     waiting_queue |-> waiting_queue,
     allocated_processes |-> allocated_processes,
     current_time |-> current_time, frame_table |-> frame_table,
     frame_owner |-> frame_owner, total_memory_size |-> total_memory_size,
     log |-> <<>>, ret |-> FALSE, allocated_from_queue |-> 0]

Test2Commit(st) ==
    /\ memory_head' = st.memory_head
    /\ processes' = st.processes
    /\ waiting_queue' = st.waiting_queue
    /\ allocated_processes' = st.allocated_processes
    /\ current_time' = st.current_time
    /\ frame_table' = st.frame_table
    /\ frame_owner' = st.frame_owner
    /\ log' = st.log

\* Process sizes of test2.c's input: the smallest, the largest the block
\* list takes, and one that goes to paging.
Test2Sizes == {1, MaxPartitionSize, MemorySize + 1}

\* The inputs of test2.c: pid i, any size of Test2Sizes and arrival time.
Test2Inputs ==
    {[i \in Procs |-> Test2Process(i, ar[i], sz[i])] :
        ar \in [Procs -> ArrivalTimes], sz \in [Procs -> Test2Sizes]}

Test2SingleInputs ==
    {<<Test2Process(1, ar, sz)>> :
        ar \in ArrivalTimes, sz \in 1..(MemorySize + 1)}

\* initialize_memory of test2.c and the input loaded.
InitTest2With(inputs) ==
    /\ variant = "test2"
    /\ memory_head = <<InitialBlock(MemorySize)>>
    /\ freeList = <<>>
    /\ total_used_memory = 0
    /\ processes \in inputs
    /\ waiting_queue = <<>>
    /\ allocated_processes = <<>>
    /\ current_time = 0
    /\ stats = ZeroStats
    /\ next_process_index = 1
    /\ max_time = LastArrival(processes) + ExtraTime
    /\ pc = "run"
    /\ frame_table = [j \in 1..total_frames |-> FALSE]
    /\ frame_owner = [j \in 1..total_frames |-> -1]
    /\ total_memory_size = MemorySize
    /\ threads = IdleThreads
    /\ log = <<>>

InitTest2 == InitTest2With(Test2Inputs)

\* main of test2.c before the memory size is asked for: no block list, no
\* process; the frame cells are modelled from initialize_memory on.
InitTest2Start ==
    /\ variant = "test2"
    /\ memory_head = <<>>
    /\ freeList = <<>>
    /\ total_used_memory = 0
    /\ processes = <<>>
    /\ waiting_queue = <<>>
    /\ allocated_processes = <<>>
    /\ current_time = 0
    /\ stats = ZeroStats
    /\ next_process_index = 1
    /\ max_time = 0
    /\ pc = "start"
    /\ frame_table = <<>>
    /\ frame_owner = <<>>
    /\ total_memory_size = 0
    /\ threads = IdleThreads
    /\ log = <<>>

\* The memory sizes main passes to initialize_memory: any positive number
\* typed by the user or read from the first line of the process file.  The
\* pool of the other specifications, and the smallest pool with more frames
\* than frame_table[] has cells.
MemorySizes == {MemorySize, PAGE_SIZE * (MaxFrames + 1)}

\* initialize_memory(size): the loop "i < MAX_FRAMES && i < size / PAGE_SIZE"
\* frees the cells inside the arrays.  frame_table and frame_owner model the
\* cells 0..size / PAGE_SIZE - 1 that the other functions sweep; a cell past
\* MAX_FRAMES is outside the array, initialize_memory does not write it and
\* what it holds is arbitrary.
InitialFrameTables(size) ==
    {t \in [frame_table : [1..FramesIn(size) -> BOOLEAN],
            frame_owner : [1..FramesIn(size) -> {-1, 1}]] :
        \A j \in 1..FramesIn(size) :
            j <= MaxFrames => ~t.frame_table[j] /\ t.frame_owner[j] = -1}

\* The frame_table indexes read by the used-frame count of
\* display_memory_state: "for (i = 0; i < total_frames; i++)".
test2_display_memory_state(size) == 0..(FramesIn(size) - 1)

\* main up to the simulation loop: the memory size, initialize_memory, the
\* processes, max_time and the first display_memory_state.  A display that
\* reads past frame_table[] has undefined behaviour: the program goes on, or
\* it stops there.
Test2Start ==
    /\ variant = "test2" /\ pc = "start"
    /\ \E size \in MemorySizes :
           /\ total_memory_size' = size
           /\ memory_head' = <<InitialBlock(size)>>
           /\ \E t \in InitialFrameTables(size) :
                  /\ frame_table' = t.frame_table
                  /\ frame_owner' = t.frame_owner
           /\ IF \A j \in test2_display_memory_state(size) : j < MaxFrames
              THEN pc' = "run"
              ELSE pc' \in {"run", "crashed"}
    /\ processes' \in Test2Inputs
    /\ max_time' = LastArrival(processes') + ExtraTime
    /\ log' = <<>>
    /\ UNCHANGED <<variant, threads, freeList, total_used_memory, stats,
                   waiting_queue, allocated_processes, current_time,
                   next_process_index>>

\* allocate_with_paging as a function of the frame table and the size.  A
\* pool of MaxFrames frames; process 1 was paged earlier and holds the frames
\* of held (any set: the frames below and between were given back by
\* processes that have left); process 2, of any size, is paged next.
FramePools == SUBSET (0..(MaxFrames - 1))

PagedSizes == 1..(PAGE_SIZE * MaxFrames + 1)

\* The page table of a process whose pages sit in the frames of held, in
\* rising order.
RECURSIVE PageEntries(_, _)
PageEntries(held, page) ==
    IF held = {} THEN <<>>
    ELSE LET j == CHOOSE j \in held : \A k \in held : j <= k
         IN  <<[page_number |-> page, frame_number |-> j,
                is_loaded |-> TRUE]>> \o PageEntries(held \ {j}, page + 1)

HolderOf(held) ==
    IF held = {} THEN Test2Process(1, 0, 1)
    ELSE [Test2Process(1, 0, PAGE_SIZE * Cardinality(held)) EXCEPT
             !.allocated = TRUE, !.allocation_time = 0, !.uses_paging = TRUE,
             !.page_table = [process_id |-> 1,
                             total_pages |-> Cardinality(held),
                             entries |-> PageEntries(held, 0)]]

InitFrames ==
    /\ variant = "test2"
    /\ total_memory_size = PAGE_SIZE * MaxFrames
    /\ memory_head = <<InitialBlock(total_memory_size)>>
    /\ freeList = <<>>
    /\ total_used_memory = 0
    /\ \E held \in FramePools, size \in PagedSizes :
           /\ processes = <<HolderOf(held), Test2Process(2, 0, size)>>
           /\ frame_table = [j \in 1..MaxFrames |-> (j - 1) \in held]
           /\ frame_owner = [j \in 1..MaxFrames |->
                                IF (j - 1) \in held THEN 1 ELSE -1]
           /\ allocated_processes = IF held = {} THEN <<>> ELSE <<1>>
    /\ waiting_queue = <<>>
    /\ current_time = 0
    /\ stats = ZeroStats
    /\ next_process_index = 2
    /\ max_time = ExtraTime
    /\ pc = "run"
    /\ threads = IdleThreads
    /\ log = <<>>

\* handle_process's call allocate_with_paging(&processes[1]).
PagingCall ==
    /\ variant = "test2" /\ pc = "run"
    /\ next_process_index = 2
    /\ Test2Commit(allocate_with_paging(Test2Cur, next_process_index))
    /\ next_process_index' = next_process_index + 1
    /\ pc' = "done"
    /\ UNCHANGED <<variant, total_memory_size, threads, freeList,
                   total_used_memory, stats, max_time>>

SpecFrames == InitFrames /\ [][PagingCall]_vars

\* The pids the user may type after 'd': those of the input and 0 (atoi of
\* anything else).
UserPids == 0..NumProcs

\* main, the inner while: add_process of the next arrived process.
Test2AddProcess ==
    /\ variant = "test2" /\ pc = "run"
    /\ current_time <= max_time
    /\ ArrivalDue
    /\ Test2Commit(test2_add_process(Test2Cur, next_process_index))
    /\ next_process_index' = next_process_index + 1
    /\ UNCHANGED <<variant, total_memory_size, threads, freeList, total_used_memory, stats, max_time, pc>>

\* main, from the end of the arrivals to the prompt: the deallocation of
\* allocated_processes[0] every DemoPeriod time units.
Test2Prompt ==
    /\ variant = "test2" /\ pc = "run"
    /\ current_time <= max_time
    /\ ~ArrivalDue
    /\ ~AllDone
    /\ IF Len(allocated_processes) > 0 /\ current_time % DemoPeriod = 0
       THEN Test2Commit(test2_deallocate_memory(Test2Cur, allocated_processes[1]))
       ELSE Test2Commit(Test2Cur)
    /\ pc' = "input"
    /\ UNCHANGED <<variant, total_memory_size, threads, freeList, total_used_memory, stats,
                   next_process_index, max_time>>

\* The loop ends: current_time > max_time, or nothing is left to do.
Test2Finish ==
    /\ variant = "test2" /\ pc = "run"
    /\ ~ArrivalDue
    /\ current_time > max_time \/ AllDone
    /\ Test2Commit(Test2Cur)
    /\ pc' = "done"
    /\ UNCHANGED <<variant, total_memory_size, threads, freeList, total_used_memory, stats,
                   next_process_index, max_time>>

\* The user types 'q'.
Test2Quit ==
    /\ variant = "test2" /\ pc = "input"
    /\ Test2Commit(Test2Cur)
    /\ pc' = "done"
    /\ UNCHANGED <<variant, total_memory_size, threads, freeList, total_used_memory, stats,
                   next_process_index, max_time>>

\* The user types 'd' and a pid.
Test2UserDeallocate ==
    /\ variant = "test2" /\ pc = "input"
    /\ \E pid \in UserPids :
           Test2Commit(test2_deallocate_memory(Test2Cur, pid))
    /\ pc' = "run"
    /\ UNCHANGED <<variant, total_memory_size, threads, freeList, total_used_memory, stats,
                   next_process_index, max_time>>

\* The user presses Enter: simulate_time_step.
Test2Tick ==
    /\ variant = "test2" /\ pc = "input"
    /\ Test2Commit(test2_simulate_time_step(Test2Cur))
    /\ pc' = "run"
    /\ UNCHANGED <<variant, total_memory_size, threads, freeList, total_used_memory, stats,
                   next_process_index, max_time>>

(***************************************************************************)
(* Specifications.                                                         *)
(***************************************************************************)
NextBlock ==
    \/ TestAddProcess
    \/ TestTick
    \/ TestFinish
    \/ Tes3AddProcess
    \/ Tes3Tick
    \/ Tes3Finish

\* tes3.c's menu loop lets the simulation be run again.
NextMenu == NextBlock \/ Tes3Rerun

SpecMenu == InitBlock /\ [][NextMenu]_vars

\* The first run of tes3.c on processes that each fit the empty pool.  The
\* loop body always runs to its end (a 0.5 s pause, or ENTER in step mode),
\* so the loop keeps taking steps while one is possible.
FittingInputs ==
    {inp \in Inputs : \A i \in DOMAIN inp : inp[i].size <= MemorySize}

\* tes3.c before a process set is loaded: memory initialised, no process.
InitTes3Menu ==
    /\ variant = "tes3"
    /\ memory_head = <<InitialBlock(MemorySize)>>
    /\ freeList = <<>>
    /\ total_used_memory = 0
    /\ processes = <<>>
    /\ waiting_queue = <<>>
    /\ allocated_processes = <<>>
    /\ current_time = 0
    /\ stats = ZeroStats
    /\ next_process_index = 1
    /\ max_time = 0
    /\ pc = "menu"
    /\ frame_table = <<>>
    /\ frame_owner = <<>>
    /\ total_memory_size = MemorySize
    /\ threads = IdleThreads
    /\ log = <<>>

\* Menu choices 1 or 2 (a process set is generated or read), then 5.
Tes3Load ==
    /\ variant = "tes3" /\ pc = "menu"
    /\ processes' \in FittingInputs
    /\ pc' = "run"
    /\ log' = <<>>
    /\ UNCHANGED <<variant, total_memory_size, frame_table, frame_owner, threads, memory_head,
                   freeList, total_used_memory, waiting_queue,
                   allocated_processes, current_time, stats,
                   next_process_index, max_time>>

NextTes3 == Tes3Load \/ Tes3AddProcess \/ Tes3Tick \/ Tes3Finish

\* The loop's three kinds of step, by the variable each one advances; under
\* NextTes3 they are the steps of Tes3AddProcess, Tes3Tick and Tes3Finish
\* and are possible in the same states.
Tes3Arrival ==
    /\ variant = "tes3" /\ pc = "run" /\ ~AllDone /\ ArrivalDue
    /\ next_process_index' = next_process_index + 1

Tes3Clock ==
    /\ variant = "tes3" /\ pc = "run" /\ ~AllDone /\ ~ArrivalDue
    /\ current_time < MaxTime
    /\ current_time' = current_time + 1

Tes3Exit == variant = "tes3" /\ pc = "run" /\ AllDone /\ pc' = "done"

SpecTes3Run ==
    /\ InitTes3Menu /\ [][NextTes3]_vars
    /\ WF_vars(Tes3Load)
    /\ WF_next_process_index(Tes3Arrival)
    /\ WF_current_time(Tes3Clock)
    /\ WF_pc(Tes3Exit)

\* test.c and tes3.c run on a process file.
SpecRead == InitRead /\ [][NextBlock]_vars

NextTest2 ==
    \/ Test2AddProcess
    \/ Test2Prompt
    \/ Test2Finish
    \/ Test2Quit
    \/ Test2UserDeallocate
    \/ Test2Tick

NextFinal ==
    \/ FinalAddProcess
    \/ FinalTick

\* test.c and tes3.c.
SpecBlock == InitBlock /\ [][NextBlock]_vars

\* test2.c.
SpecTest2 == InitTest2 /\ [][NextTest2]_vars

\* test2.c from the start of main, the memory size being an input.
NextTest2Start == Test2Start \/ NextTest2

SpecTest2Start == InitTest2Start /\ [][NextTest2Start]_vars

\* final.c, its operations executed one at a time.
SpecFinal == InitFinal /\ [][NextFinal]_vars

\* The programs with a block list: test.c, tes3.c and test2.c.
InitList == InitBlock \/ InitTest2

NextList == NextBlock \/ NextTest2

SpecList == InitList /\ [][NextList]_vars

\* Any of the programs.
Init == InitBlock \/ InitTest2 \/ InitFinal

\* Any of the programs, run on a single process.
InitSingle ==
    \/ InitBlockWith(SingleInputs)
    \/ InitTest2With(Test2SingleInputs)
    \/ InitFinal

NextSingle ==
    \/ TestAddProcess
    \/ TestTick
    \/ TestFinish
    \/ Tes3AddProcess
    \/ Tes3Tick
    \/ Tes3Finish
    \/ Test2AddProcess
    \/ Test2Prompt
    \/ Test2Finish
    \/ Test2Quit
    \/ Test2UserDeallocate
    \/ Test2Tick
    \/ FinalAddSingle
    \/ FinalTick

SpecSingle == InitSingle /\ [][NextSingle]_vars

Next == NextBlock \/ NextTest2 \/ NextFinal

Spec == Init /\ [][Next]_vars

(***************************************************************************)
(* Vocabulary of the properties.                                           *)
(***************************************************************************)
BlockVariant == variant \in {"test", "tes3"}

\* The programs with a MemoryBlock list.
ListVariant == variant \in {"test", "tes3", "test2"}

\* The entries of the history variable for one kind of call.
Calls(op) == {n \in 1..Len(log) : log[n].op = op}

\* The block list covers [0, MemorySize) without gap, overlap or empty block.
Tiles(mem) ==
    /\ Len(mem) >= 1
    /\ mem[1].start_address = 0
    /\ \A k \in 2..Len(mem) :
           mem[k].start_address = mem[k - 1].start_address + mem[k - 1].size
    /\ \A k \in 1..Len(mem) : mem[k].size > 0
    /\ SumSizes(mem) = MemorySize

NoAdjacentFree(mem) ==
    \A k \in 1..(Len(mem) - 1) : ~(mem[k].is_free /\ mem[k + 1].is_free)

\* Blocks i..j of mem are a maximal run of free blocks.
FreeRun(mem, i, j) ==
    /\ 1 <= i /\ i <= j /\ j <= Len(mem)
    /\ \A k \in i..j : mem[k].is_free
    /\ i = 1 \/ ~mem[i - 1].is_free
    /\ j = Len(mem) \/ ~mem[j + 1].is_free

\* What a block list shows of the layout: start, size, free flag and owner.
Layout(mem) ==
    [k \in 1..Len(mem) |->
        <<mem[k].start_address, mem[k].size, mem[k].is_free, mem[k].process_id>>]

\* The free regions of a block list, in list order.
FreeRegionsOf(mem) ==
    LET free == SelectSeq(mem, LAMBDA b : b.is_free)
    IN  [k \in 1..Len(free) |-> <<free[k].start_address, free[k].size>>]

(***************************************************************************)
(* C1: in test.c, tes3.c and test2.c the block list tiles                  *)
(* [0, total_memory_size) after every add_process and simulate_time_step,  *)
(* and after every allocate_memory and deallocate_memory call they make:   *)
(* it starts at 0, each block starts where the previous one ends, no block *)
(* is empty and the sizes sum to the pool size.                            *)
(***************************************************************************)
C1_Tiling ==
    ListVariant =>
        /\ Tiles(memory_head)
        /\ \A n \in 1..Len(log) : Tiles(log[n].mid) /\ Tiles(log[n].after)

\* A tick that freed a block and placed a waiting process, leaving at
\* least three blocks.
C1_Witness ==
    /\ BlockVariant
    /\ Len(memory_head) >= 3
    /\ \E n \in Calls("deallocate_memory") : log[n].ok
    /\ \E n \in Calls("allocate_memory") : log[n].ok

(***************************************************************************)
(* C2: allocate_memory picks a free block of minimum size among those of   *)
(* size >= the request, the first such block in list order on a tie, and   *)
(* fails only when no block qualifies; the process's memory_address        *)
(* (start_address in final.c) is the start of the picked block.            *)
(***************************************************************************)
\* Block c of list is the best fit for req; usable(b) says b may be taken.
IsBestFit(list, usable(_), req, c) ==
    /\ c \in 1..Len(list)
    /\ usable(list[c]) /\ list[c].size >= req
    /\ \A k \in 1..Len(list) :
           (usable(list[k]) /\ list[k].size >= req) =>
               \/ list[c].size < list[k].size
               \/ list[c].size = list[k].size /\ c <= k

NoneFits(list, usable(_), req) ==
    \A k \in 1..Len(list) : ~(usable(list[k]) /\ list[k].size >= req)

C2_BestFit ==
    \A n \in Calls("allocate_memory") :
        LET e == log[n]
            req == processes[e.proc].size
        IN  IF variant = "final"
            THEN IF e.ok
                 THEN /\ IsBestFit(e.before, LAMBDA b : TRUE, req, e.at)
                      /\ processes[e.proc].start_address = e.before[e.at].start
                 ELSE NoneFits(e.before, LAMBDA b : TRUE, req)
            ELSE IF e.ok
                 THEN /\ IsBestFit(e.before, LAMBDA b : b.is_free, req, e.at)
                      /\ processes[e.proc].memory_address
                             = e.before[e.at].start_address
                      /\ e.after[e.at].process_id = e.pid
                      /\ e.after[e.at].start_address
                             = e.before[e.at].start_address
                 ELSE NoneFits(e.before, LAMBDA b : b.is_free, req)

\* A placement decided by the tie-break: another free block of the same
\* size follows the picked one.
C2_Witness ==
    /\ BlockVariant
    /\ \E n \in Calls("allocate_memory") :
           /\ log[n].ok
           /\ \E k \in 1..Len(log[n].before) :
                  /\ k > log[n].at
                  /\ log[n].before[k].is_free
                  /\ log[n].before[k].size = log[n].before[log[n].at].size

(***************************************************************************)
(* C3: after merge_free_blocks (so after every successful                  *)
(* deallocate_memory) no two consecutive blocks are free, the used blocks  *)
(* are untouched, and every maximal run of free blocks, also one of three  *)
(* or more, has become one free block starting at the run's first start    *)
(* with the sum of the run's sizes.                                        *)
(***************************************************************************)
Collapsed(before, after) ==
    /\ NoAdjacentFree(after)
    /\ SelectSeq(after, LAMBDA b : ~b.is_free)
           = SelectSeq(before, LAMBDA b : ~b.is_free)
    /\ \A i \in 1..Len(before), j \in 1..Len(before) :
           FreeRun(before, i, j) =>
               \E k \in 1..Len(after) :
                   /\ after[k].is_free
                   /\ after[k].start_address = before[i].start_address
                   /\ after[k].size = SumSizes(SubSeq(before, i, j))
    /\ Len(SelectSeq(after, LAMBDA b : b.is_free))
           = Cardinality({i \in 1..Len(before) :
                             \E j \in i..Len(before) : FreeRun(before, i, j)})

C3_Coalesce ==
    ListVariant =>
        /\ NoAdjacentFree(memory_head)
        /\ \A n \in Calls("deallocate_memory") :
               log[n].ok => Collapsed(log[n].mid, log[n].after)

\* A call that found three consecutive free blocks.
C3_Witness ==
    /\ ListVariant
    /\ \E n \in Calls("deallocate_memory") :
           /\ log[n].ok
           /\ \E i \in 1..Len(log[n].mid) : FreeRun(log[n].mid, i, i + 2)

(***************************************************************************)
(* C4: on a pool that is one free region, allocate_memory of a single      *)
(* process of any size 1..pool followed by deallocate_memory of its id,    *)
(* with no other allocation in between, gives back the one free region     *)
(* [0, pool): with the block list of test.c, tes3.c and test2.c (also when *)
(* the slack rule gave the whole block) and in final.c.  Checked on the    *)
(* runs with a single process.                                             *)
(***************************************************************************)
\* The process of a single-process run holds memory.
SingleHolds ==
    IF variant = "final"
    THEN Len(processes) = 1 /\ processes[1].allocated = 1
    ELSE /\ processes[1].pid \in Range(allocated_processes)
         /\ BlockOf(memory_head, processes[1].pid) # NULL

\* The process of a single-process run was placed and then deallocated.
SingleReleased ==
    IF variant = "final"
    THEN Len(processes) = 1 /\ processes[1].allocated = 0
    ELSE /\ processes[1].memory_address # -1
         /\ processes[1].pid \notin Range(allocated_processes)

C4_RoundTrip ==
    /\ SingleHolds =>
           IF variant = "final"
           THEN /\ processes[1].start_address = 0
                /\ freeList =
                       IF processes[1].size = MemorySize THEN <<>>
                       ELSE <<[start |-> processes[1].size,
                               size |-> MemorySize - processes[1].size]>>
           ELSE /\ ~memory_head[1].is_free
                /\ memory_head[1].process_id = processes[1].pid
                /\ memory_head[1].start_address = 0
    /\ SingleReleased =>
           IF variant = "final"
           THEN freeList = <<[start |-> 0, size |-> MemorySize]>>
           ELSE /\ Len(memory_head) = 1
                /\ memory_head[1].is_free
                /\ memory_head[1].process_id = -1
                /\ memory_head[1].start_address = 0
                /\ memory_head[1].size = MemorySize
    /\ LET size == IF variant = "final"
                   THEN IF Len(processes) = 1 THEN processes[1].size
                        ELSE MemorySize + 1
                   ELSE IF next_process_index > 1 THEN processes[1].size
                        ELSE MemorySize + 1
           limit == IF variant = "test2" THEN MaxPartitionSize ELSE MemorySize
       IN  size <= limit => SingleHolds \/ SingleReleased

\* A process that got the whole pool by the slack rule, though smaller than
\* the pool, and was deallocated.
C4_Witness ==
    /\ BlockVariant
    /\ SingleReleased
    /\ processes[1].size < MemorySize
    /\ \E n \in Calls("deallocate_memory") :
           log[n].ok /\ Len(log[n].before) = 1

(***************************************************************************)
(* C5: merge_free_blocks is idempotent on every list it is called on and   *)
(* on every list the program reaches: a second call changes nothing.       *)
(***************************************************************************)
C5_MergeIdempotent ==
    IF variant = "final"
    THEN /\ final_merge_free_blocks(final_merge_free_blocks(freeList))
                = final_merge_free_blocks(freeList)
         /\ \A n \in Calls("deallocate_memory") :
                final_merge_free_blocks(final_merge_free_blocks(log[n].mid))
                    = final_merge_free_blocks(log[n].mid)
    ELSE /\ merge_free_blocks(merge_free_blocks(memory_head))
                = merge_free_blocks(memory_head)
         /\ \A n \in Calls("deallocate_memory") :
                merge_free_blocks(merge_free_blocks(log[n].mid))
                    = merge_free_blocks(log[n].mid)

\* A call of merge_free_blocks that merged twice.
C5_Witness ==
    \E n \in Calls("deallocate_memory") :
        /\ log[n].ok
        /\ Len(log[n].after) = Len(log[n].mid) - 2

(***************************************************************************)
(* C6: in test.c/tes3.c a process whose placement failed when it arrived   *)
(* is in the waiting queue; every simulate_time_step tries each waiting    *)
(* process once, the attempt succeeds exactly when some free block has     *)
(* size >= its size at that moment, and a success allocates the process    *)
(* in that tick and takes it off the queue, with no add_process call.      *)
(***************************************************************************)
Fits(mem, size) == \E k \in 1..Len(mem) : mem[k].is_free /\ mem[k].size >= size

TickStep == BlockVariant /\ current_time' = current_time + 1

AddStep == BlockVariant /\ next_process_index' = next_process_index + 1

C6_FailedArrivalWaits ==
    BlockVariant =>
        \A i \in DOMAIN processes :
            (i < next_process_index /\ processes[i].allocation_time = -1)
                <=> i \in Range(waiting_queue)

C6_RetryPlaces ==
    TickStep =>
        /\ next_process_index' = next_process_index
        /\ \A i \in Range(waiting_queue) :
               LET attempts == {n \in 1..Len(log') :
                                   /\ log'[n].op = "allocate_memory"
                                   /\ log'[n].proc = i}
               IN  /\ Cardinality(attempts) = 1
                   /\ \A n \in attempts :
                          /\ log'[n].ok <=> Fits(log'[n].before, processes[i].size)
                          /\ log'[n].ok =>
                                 /\ processes'[i].allocated
                                 /\ processes'[i].allocation_time = current_time'
                                 /\ i \notin Range(waiting_queue')
                                 /\ processes[i].pid \in Range(allocated_processes')
                          /\ ~log'[n].ok =>
                                 /\ i \in Range(waiting_queue')
                                 /\ ~processes'[i].allocated

C6_WaitingAdmission == [](C6_FailedArrivalWaits) /\ [][C6_RetryPlaces]_vars

\* A tick freed a block and then placed a process that had been waiting.
C6_Witness ==
    /\ BlockVariant
    /\ \E n \in Calls("deallocate_memory"), m \in Calls("allocate_memory") :
           /\ n < m
           /\ log[n].ok /\ log[m].ok
           /\ processes[log[m].proc].waiting_time > 0
           /\ ~Fits(log[n].before, processes[log[m].proc].size)

(***************************************************************************)
(* C7: in test.c/tes3.c (execution_time > 0) a process becomes completed   *)
(* only in a tick that takes its remaining_time from 1 to 0; that tick     *)
(* deallocates it exactly once (its block is freed, its pid leaves         *)
(* allocated_processes); stats.completed_processes counts each completed   *)
(* process once; a completed process is never changed or deallocated       *)
(* again, and no process is deallocated without completing.                *)
(***************************************************************************)
Deallocations(l, pid) ==
    {n \in 1..Len(l) : l[n].op = "deallocate_memory" /\ l[n].pid = pid}

C7_CompletedState ==
    BlockVariant =>
        /\ \A i \in DOMAIN processes :
               processes[i].completed =>
                   /\ processes[i].remaining_time = 0
                   /\ processes[i].pid \notin Range(allocated_processes)
                   /\ BlockOf(memory_head, processes[i].pid) = NULL
        /\ \A i \in DOMAIN processes :
               ~processes[i].completed => processes[i].remaining_time > 0
        /\ stats.completed_processes
               = Cardinality({i \in DOMAIN processes : processes[i].completed})

C7_CompletionStep ==
    BlockVariant =>
        \A i \in DOMAIN processes :
            LET pid == processes[i].pid
                deallocs == Deallocations(log', pid)
            IN  /\ (processes'[i].completed /\ ~processes[i].completed) =>
                       /\ current_time' = current_time + 1
                       /\ processes[i].remaining_time = 1
                       /\ processes'[i].remaining_time = 0
                       /\ Cardinality(deallocs) = 1
                       /\ \A n \in deallocs : log'[n].ok
                       /\ pid \in Range(allocated_processes)
                       /\ BlockOf(memory_head, pid) # NULL
                /\ (processes'[i].completed <=> processes[i].completed) =>
                       deallocs = {}
                /\ processes[i].completed => processes'[i] = processes[i]

C8_ExactlyOneState ==
    BlockVariant =>
        \A i \in DOMAIN processes :
            LET p == processes[i]
                waiting == i \in Range(waiting_queue)
                listed == p.pid \in Range(allocated_processes)
            IN  /\ ~(waiting /\ listed)
                /\ p.completed =>
                       /\ ~p.allocated
                       /\ BlockOf(memory_head, p.pid) = NULL
                       /\ ~waiting
                       /\ ~listed

\* The same without the allocated flag of a completed process.
C8_ExceptAllocatedFlag ==
    BlockVariant =>
        \A i \in DOMAIN processes :
            LET p == processes[i]
                waiting == i \in Range(waiting_queue)
                listed == p.pid \in Range(allocated_processes)
            IN  /\ ~(waiting /\ listed)
                /\ p.completed =>
                       /\ BlockOf(memory_head, p.pid) = NULL
                       /\ ~waiting
                       /\ ~listed

(***************************************************************************)
(* C9: in test.c/tes3.c every process that has been allocated has          *)
(* allocation_time >= arrival_time and waiting_time = allocation_time -    *)
(* arrival_time >= 0, and its block carries the same two times.            *)
(***************************************************************************)
C9_NotBeforeArrival ==
    BlockVariant =>
        /\ \A i \in DOMAIN processes :
               IF processes[i].allocated
               THEN /\ processes[i].allocation_time >= processes[i].arrival_time
                    /\ processes[i].allocation_time <= current_time
                    /\ processes[i].waiting_time
                           = processes[i].allocation_time - processes[i].arrival_time
                    /\ processes[i].waiting_time >= 0
               ELSE processes[i].allocation_time = -1
        /\ \A k \in 1..Len(memory_head) :
               ~memory_head[k].is_free =>
                   memory_head[k].allocation_time >= memory_head[k].arrival_time
        /\ stats.max_waiting_time >= 0

\* One process placed on arrival and one placed later from the queue.
C9_Witness ==
    /\ BlockVariant
    /\ \E i \in DOMAIN processes, j \in DOMAIN processes :
           /\ processes[i].allocated /\ processes[i].waiting_time = 0
           /\ processes[j].allocated /\ processes[j].waiting_time > 0
           /\ processes[j].arrival_time > 0

(***************************************************************************)
(* C10: in test.c/tes3.c, when no free block has size >= the request,      *)
(* allocate_memory returns false and changes nothing but                   *)
(* stats.failed_allocations (+1): block list, allocated_processes and the  *)
(* process are as before; add_process then appends the process at the end  *)
(* of waiting_queue.  A retry that fails in a tick leaves the process      *)
(* unchanged as well.                                                      *)
(***************************************************************************)
C10_AddStep ==
    (AddStep /\ ~Fits(memory_head, processes[next_process_index].size)) =>
        /\ memory_head' = memory_head
        /\ allocated_processes' = allocated_processes
        /\ processes' = processes
        /\ waiting_queue' = Append(waiting_queue, next_process_index)
        /\ stats'.failed_allocations = stats.failed_allocations + 1
        /\ stats'.successful_allocations = stats.successful_allocations
        /\ stats'.max_waiting_time = stats.max_waiting_time
        /\ stats'.completed_processes = stats.completed_processes
        /\ Len(log') = 1 /\ ~log'[1].ok /\ log'[1].after = log'[1].before

C10_RetryStep ==
    TickStep =>
        /\ \A i \in Range(waiting_queue') : processes'[i] = processes[i]
        /\ stats'.failed_allocations - stats.failed_allocations
               = Cardinality({n \in 1..Len(log') :
                                 log'[n].op = "allocate_memory" /\ ~log'[n].ok})
        /\ \A n \in 1..Len(log') :
               (log'[n].op = "allocate_memory" /\ ~log'[n].ok) =>
                   /\ ~Fits(log'[n].before, processes[log'[n].proc].size)
                   /\ log'[n].after = log'[n].before

C10_Rejected == [][C10_AddStep /\ C10_RetryStep]_vars

\* add_process has just queued a process behind another waiting one.
C10_Witness ==
    /\ BlockVariant
    /\ Len(waiting_queue) >= 2
    /\ Len(log) = 1 /\ ~log[1].ok
    /\ log[1].proc = waiting_queue[Len(waiting_queue)]
    /\ next_process_index = log[1].proc + 1

(***************************************************************************)
(* C11: deallocate_memory(pid) for a pid that holds nothing (never         *)
(* allocated, still waiting, already deallocated, or unknown) changes      *)
(* nothing: block list or free list, allocated_processes, waiting_queue,   *)
(* the process records and the statistics stay as they are.  Checked for   *)
(* such a call made in any reachable state of test.c, tes3.c, test2.c and  *)
(* final.c, and for the calls test2.c's user makes.                        *)
(***************************************************************************)
\* The pids a call may name: those of the input, 0 and one unknown pid.
AnyPids == 0..(NumProcs + 1)

\* The state record without the history and the return value.
Untouched(st, st2) ==
    \A f \in DOMAIN st : f \in {"log", "ret"} \/ st2[f] = st[f]

C11_CallChangesNothing ==
    \A pid \in AnyPids :
        CASE BlockVariant ->
                 BlockOf(memory_head, pid) = NULL
                     => Untouched(Cur, deallocate_memory(Cur, pid))
          [] variant = "test2" ->
                 AllocatedSlot(processes, pid, FALSE) = NULL
                     => Untouched(Test2Cur, test2_deallocate_memory(Test2Cur, pid))
          [] OTHER ->
                 FinalFind(processes, pid) = NULL
                     => Untouched(FinalCur, final_deallocate_memory(FinalCur, pid))

C11_UserCallChangesNothing ==
    (/\ variant = "test2"
     /\ Len(log') = 1
     /\ log'[1].op = "deallocate_memory"
     /\ log'[1].proc = NULL)
        => UNCHANGED <<memory_head, allocated_processes, waiting_queue,
                       processes, stats, frame_table, frame_owner,
                       current_time>>

C11_UnknownPidNoOp ==
    [](C11_CallChangesNothing) /\ [][C11_UserCallChangesNothing]_vars

\* The user of test2.c has just asked to deallocate a process that had been
\* placed in the block list and was deallocated before, while another
\* process holds a block.
C11_Witness ==
    /\ variant = "test2"
    /\ Len(log) = 1
    /\ log[1].op = "deallocate_memory"
    /\ log[1].proc = NULL
    /\ log[1].pid \in DOMAIN processes
    /\ processes[log[1].pid].memory_address # -1
    /\ Len(allocated_processes) >= 1

(***************************************************************************)
(* C12: in final.c the shared state has one writer at a time: tick(),      *)
(* run by clock_tick_thread, is never in progress while main is inside     *)
(* its add-process sequence (from the filling of processes[num_processes]  *)
(* to num_processes++).                                                    *)
(***************************************************************************)
C12_SingleWriter ==
    variant = "final" => ~(threads.main # "menu" /\ threads.tick # "idle")

(***************************************************************************)
(* C13: in final.c with add-process and tick executed one at a time,       *)
(* unique ids and positive sizes, after every operation each address of    *)
(* [0, MEMORY_SIZE) lies in exactly one region, a free block or the range  *)
(* [start_address, start_address + size) of a process with allocated = 1,  *)
(* and no region reaches outside [0, MEMORY_SIZE).                         *)
(***************************************************************************)
\* The regions of final.c: the free blocks and the ranges of the allocated
\* processes, as <<kind, index, start, size>>.
FinalRegions ==
    {<<"free", k, freeList[k].start, freeList[k].size>> : k \in 1..Len(freeList)}
        \cup
    {<<"used", i, processes[i].start_address, processes[i].size>> :
        i \in {j \in 1..Len(processes) : processes[j].allocated = 1}}

C13_FinalPartition ==
    variant = "final" =>
        /\ \A r \in FinalRegions :
               r[3] >= 0 /\ r[4] > 0 /\ r[3] + r[4] <= MemorySize
        /\ \A a \in 0..(MemorySize - 1) :
               Cardinality({r \in FinalRegions :
                               r[3] <= a /\ a < r[3] + r[4]}) = 1

\* A tick has released a process while another still holds memory, and the
\* free space is in two blocks.
C13_Witness ==
    /\ variant = "final"
    /\ Len(freeList) >= 2
    /\ \E i \in 1..Len(processes) : processes[i].allocated = 1
    /\ \E n \in Calls("deallocate_memory") : log[n].ok

(***************************************************************************)
(* C14: in final.c, after deallocate_memory returns, no two blocks a, b of *)
(* the free list have a.start + a.size = b.start, wherever they are in     *)
(* the list.                                                               *)
(***************************************************************************)
\* No two blocks of the list are adjacent in address.
NoAdjacentAnywhere(list) ==
    \A a \in 1..Len(list), b \in 1..Len(list) :
        list[a].start + list[a].size # list[b].start

C14_FinalCoalesced ==
    variant = "final" =>
        \A n \in Calls("deallocate_memory") :
            log[n].ok => NoAdjacentAnywhere(log[n].after)

(***************************************************************************)
(* C15: a successful block-list allocate_memory gives the whole chosen     *)
(* block when its size is at most the requested size plus SLACK (size      *)
(* unchanged, no block created); otherwise it splits the block into the    *)
(* allocated part [start, start + requested) and a new free block          *)
(* [start + requested, start + old size) that follows it immediately.  In  *)
(* both cases the owning block's size lies in requested..requested+SLACK.  *)
(***************************************************************************)
\* The blocks of `after` from position k on are those of `before` from j on.
SameTail(before, j, after, k) ==
    /\ Len(after) - k = Len(before) - j
    /\ \A d \in 0..(Len(before) - j) : after[k + d] = before[j + d]

C15_WholeOrSplit ==
    ListVariant =>
        \A n \in Calls("allocate_memory") :
            LET e == log[n]
                req == processes[e.proc].size
                old == e.before[e.at]
                own == e.after[e.at]
            IN  e.ok =>
                    /\ \A k \in 1..(e.at - 1) : e.after[k] = e.before[k]
                    /\ ~own.is_free /\ own.process_id = e.pid
                    /\ own.start_address = old.start_address
                    /\ req <= own.size /\ own.size <= req + SLACK
                    /\ IF old.size <= req + SLACK
                       THEN /\ own.size = old.size
                            /\ Len(e.after) = Len(e.before)
                            /\ SameTail(e.before, e.at + 1, e.after, e.at + 1)
                       ELSE /\ own.size = req
                            /\ Len(e.after) = Len(e.before) + 1
                            /\ e.after[e.at + 1].is_free
                            /\ e.after[e.at + 1].start_address
                                   = old.start_address + req
                            /\ e.after[e.at + 1].size = old.size - req
                            /\ SameTail(e.before, e.at + 1, e.after, e.at + 2)

\* One step with a split and with a whole block larger than the request.
C15_Witness ==
    /\ BlockVariant
    /\ \E n \in Calls("allocate_memory") :
           /\ log[n].ok
           /\ log[n].before[log[n].at].size
                  > processes[log[n].proc].size + SLACK
    /\ \E n \in Calls("allocate_memory") :
           /\ log[n].ok
           /\ log[n].before[log[n].at].size > processes[log[n].proc].size
           /\ log[n].before[log[n].at].size
                  <= processes[log[n].proc].size + SLACK

(***************************************************************************)
(* C16: one check_waiting_processes call attempts every process that was   *)
(* in the waiting queue at its start exactly once, in queue order;         *)
(* afterwards the queue holds exactly the processes whose attempt failed,  *)
(* in their original order, without duplicates, and the count it reports   *)
(* (allocated_from_queue) is the decrease of waiting_queue_size.           *)
(***************************************************************************)
\* The entry that ends one placement attempt: allocate_memory in test.c and
\* tes3.c; in test2.c handle_process ends with a successful allocate_memory
\* or with allocate_with_paging.
EndsAttempt(e) ==
    \/ e.op = "allocate_with_paging"
    \/ e.op = "allocate_memory" /\ (e.ok \/ variant # "test2")

ProcsOf(entries) == [k \in 1..Len(entries) |-> entries[k].proc]

Attempted(l) == ProcsOf(SelectSeq(l, EndsAttempt))

Failed(l) == ProcsOf(SelectSeq(l, LAMBDA e : EndsAttempt(e) /\ ~e.ok))

NoDuplicates(q) == \A a, b \in 1..Len(q) : q[a] = q[b] => a = b

ListTickStep == ListVariant /\ current_time' = current_time + 1

C16_ScanStep ==
    ListTickStep =>
        /\ Attempted(log') = waiting_queue
        /\ waiting_queue' = Failed(log')
        /\ NoDuplicates(waiting_queue')
        /\ LET reports == {n \in 1..Len(log') :
                              log'[n].op = "check_waiting_processes"}
           IN  IF waiting_queue = <<>> THEN reports = {}
               ELSE \E r \in reports :
                        /\ reports = {r}
                        /\ \A n \in 1..Len(log') :
                               EndsAttempt(log'[n]) => n < r
                        /\ log'[r].at
                               = Len(waiting_queue) - Len(waiting_queue')
                        /\ log'[r].ok
                               = (Len(waiting_queue') < Len(waiting_queue))

C16_WaitingScan == [][C16_ScanStep]_vars

\* A call that placed one process and then failed on the next one.
C16_Witness ==
    /\ BlockVariant
    /\ \E n \in Calls("check_waiting_processes") : log[n].at >= 1
    /\ LET ends == SelectSeq(log, EndsAttempt)
       IN  \E k \in 1..(Len(ends) - 1) : ends[k].ok /\ ~ends[k + 1].ok

(***************************************************************************)
(* C17: within one simulate_time_step of test.c/tes3.c every decrement,    *)
(* completion and deallocation (with its merge) comes before the first     *)
(* waiting-queue retry, so a waiting process can be placed in memory freed *)
(* by a completion of the same tick, and the utilization sample is taken   *)
(* after the retries.                                                      *)
(***************************************************************************)
UsedSize(mem) == SumSizes(SelectSeq(mem, LAMBDA b : ~b.is_free))

\* The block list once every call of l up to entry n has returned.
MemoryAfter(l, n, start) == IF n = 0 THEN start ELSE l[n].after

C17_TickOrder ==
    TickStep =>
        LET l == log'
            frees == {n \in 1..Len(l) : l[n].op = "deallocate_memory"}
            retries == {n \in 1..Len(l) : l[n].op = "allocate_memory"}
            samples == {n \in 1..Len(l) :
                           l[n].op = "calculate_memory_utilization"}
        IN  /\ \A d \in frees, r \in retries : d < r
            \* every process that completes in the tick was deallocated, and
            \* merged, before the first retry
            /\ \A i \in DOMAIN processes :
                   (processes'[i].completed /\ ~processes[i].completed) =>
                       \E d \in frees :
                           /\ l[d].pid = processes[i].pid /\ l[d].ok
                           /\ \A r \in retries : d < r
            /\ \A r \in retries :
                   \* the retry sees the memory left by the call before it
                   /\ l[r].before = MemoryAfter(l, r - 1, memory_head)
                   \* a process placed by a retry is not decremented in
                   \* the tick that places it
                   /\ processes'[l[r].proc].remaining_time
                          = processes[l[r].proc].remaining_time
                   /\ ~processes'[l[r].proc].completed
            \* the decrements of the tick: the processes in memory before it
            /\ \A i \in DOMAIN processes :
                   processes'[i].remaining_time # processes[i].remaining_time
                       => /\ processes[i].pid \in Range(allocated_processes)
                          /\ processes'[i].remaining_time
                                 = processes[i].remaining_time - 1
            \* one sample, the last call of the tick, of the final memory
            /\ samples = {Len(l)}
            /\ l[Len(l)].before = memory_head'
            /\ l[Len(l)].at = UsedSize(memory_head')

C17_CompletionsBeforeRetries == [][C17_TickOrder]_vars

\* A waiting process placed in memory that a completion of the same tick
\* freed: it did not fit before that deallocation.
C17_Witness ==
    /\ BlockVariant
    /\ \E d \in Calls("deallocate_memory"), r \in Calls("allocate_memory") :
           /\ log[d].ok /\ log[r].ok
           /\ ~Fits(log[d].before, processes[log[r].proc].size)
           /\ log[Len(log)].at = UsedSize(memory_head)
           /\ log[Len(log)].at > 0

(***************************************************************************)
(* C18: current_time is changed by simulate_time_step, by exactly 1 per    *)
(* call, and within one simulation run by nothing else, so it never        *)
(* decreases during a run; in tes3.c starting a further run (menu choice   *)
(* 5) sets it back to 0.  As first stated (changed only by                 *)
(* simulate_time_step, never decreased over the program's execution) the   *)
(* property is C18_NeverDecreases.                                         *)
(***************************************************************************)
Sampled(l) == \E n \in 1..Len(l) : l[n].op = "calculate_memory_utilization"

\* The step contains one simulate_time_step call, which added 1.
ClockTick == current_time' = current_time + 1 /\ Sampled(log')

\* The step contains no simulate_time_step call and leaves the clock alone.
ClockKept == current_time' = current_time /\ ~Sampled(log')

\* The step starts a further run of tes3.c.
ClockReset ==
    /\ variant = "tes3" /\ pc = "done" /\ pc' = "run"
    /\ current_time' = 0 /\ ~Sampled(log')

C18_ClockStep ==
    BlockVariant =>
        /\ ClockTick \/ ClockKept \/ ClockReset
        /\ pc = "run" => current_time' >= current_time

C18_ClockPerRun == [][C18_ClockStep]_vars

C18_NeverDecreases == [][BlockVariant => (ClockTick \/ ClockKept)]_vars

\* A further run has started: the clock is back at 0 with completed
\* processes in the table.
C18_Witness ==
    /\ variant = "tes3" /\ pc = "run" /\ current_time = 0
    /\ \E i \in DOMAIN processes : processes[i].completed

(***************************************************************************)
(* C19: in test2.c, a process that reaches the paging path when fewer      *)
(* frames are free than the pages it needs, but at least one, is marked    *)
(* allocated with a partial page set (the free frames, all of them) and is *)
(* not in the waiting queue; when no frame is free allocate_with_paging    *)
(* fails and the process is in the waiting queue, not allocated.  As first *)
(* stated (allocated whenever fewer frames are free than needed) the       *)
(* property is C19_AlwaysPartial.                                          *)
(***************************************************************************)
\* The allocate_with_paging calls of the last step that found fewer free
\* frames than the pages needed.
ShortPagings ==
    {n \in Calls("allocate_with_paging") :
        log[n].free_frames < log[n].pages_needed}

LoadedPages(pt) == {k \in 1..Len(pt.entries) : pt.entries[k].is_loaded}

C19_PartialOrQueued ==
    variant = "test2" =>
        \A n \in ShortPagings :
            LET e == log[n]
                p == processes[e.proc]
            IN  IF e.free_frames > 0
                THEN /\ e.ok /\ e.at = e.free_frames
                     /\ p.allocated /\ p.uses_paging
                     /\ p.page_table.total_pages = e.pages_needed
                     /\ Cardinality(LoadedPages(p.page_table)) = e.free_frames
                     /\ p.pid \in Range(allocated_processes)
                     /\ e.proc \notin Range(waiting_queue)
                ELSE /\ ~e.ok /\ e.at = 0
                     /\ ~p.allocated
                     /\ p.page_table = NoPageTable
                     /\ e.proc \in Range(waiting_queue)

C19_AlwaysPartial ==
    variant = "test2" =>
        \A n \in ShortPagings :
            /\ processes[log[n].proc].allocated
            /\ log[n].proc \notin Range(waiting_queue)

\* A process placed by paging with some, not all, of its pages loaded.
C19_Witness ==
    /\ variant = "test2"
    /\ \E n \in ShortPagings :
           /\ log[n].free_frames > 0
           /\ processes[log[n].proc].allocated
           /\ LoadedPages(processes[log[n].proc].page_table) # {}
           /\ Cardinality(LoadedPages(processes[log[n].proc].page_table))
                  < processes[log[n].proc].page_table.total_pages

(***************************************************************************)
(* C20: in test.c and tes3.c a process in the waiting queue is never       *)
(* dropped and never times out: it stays in the queue, keeping its         *)
(* position relative to the other waiting processes, until the tick in     *)
(* which its placement succeeds; a process larger than the pool stays in   *)
(* the queue for ever.                                                     *)
(***************************************************************************)
\* The members of q that are also in r, in the order of q.
Kept(q, r) == SelectSeq(q, LAMBDA i : i \in Range(r))

\* The processes the last step placed, by allocate_memory.
PlacedIn(l) == {l[n].proc : n \in {m \in 1..Len(l) :
                                      l[m].op = "allocate_memory" /\ l[m].ok}}

C20_QueueStep ==
    BlockVariant =>
        /\ \A k \in 1..Len(waiting_queue) :
               \/ waiting_queue[k] \in Range(waiting_queue')
               \/ /\ TickStep
                  /\ waiting_queue[k] \in PlacedIn(log')
                  /\ processes'[waiting_queue[k]].allocation_time
                         = current_time'
        \* the survivors keep their order and stay ahead of later arrivals
        /\ Kept(waiting_queue, waiting_queue')
               = SubSeq(waiting_queue', 1,
                        Len(Kept(waiting_queue, waiting_queue')))

C20_OversizedWaits ==
    BlockVariant =>
        \A i \in DOMAIN processes :
            (i < next_process_index /\ processes[i].size > MemorySize)
                => i \in Range(waiting_queue)

C20_NeverDropped == [](C20_OversizedWaits) /\ [][C20_QueueStep]_vars

\* A process larger than the pool, retried without success two ticks or
\* more after its arrival, with another process waiting behind it.
C20_Witness ==
    /\ BlockVariant
    /\ Len(waiting_queue) >= 2
    /\ processes[waiting_queue[1]].size > MemorySize
    /\ current_time >= processes[waiting_queue[1]].arrival_time + 2
    /\ \E n \in Calls("allocate_memory") :
           log[n].proc = waiting_queue[1] /\ ~log[n].ok

(***************************************************************************)
(* C21: a process descriptor with size <= 0, execution_time <= 0 or        *)
(* arrival_time < 0 is rejected when it is read, so every process that     *)
(* reaches add_process has size > 0, execution_time > 0 and                *)
(* arrival_time >= 0.                                                      *)
(***************************************************************************)
ValidProcess(p) == p.size > 0 /\ p.execution_time > 0 /\ p.arrival_time >= 0

C21_OnlyValidAdded ==
    BlockVariant =>
        \A i \in DOMAIN processes :
            i < next_process_index => ValidProcess(processes[i])

(***************************************************************************)
(* C22: in final.c tick() takes an entry off waiting_queue only when that  *)
(* process was actually placed: every process it moves to processes[] has  *)
(* allocated = 1 and a start_address inside [0, MEMORY_SIZE) when tick()   *)
(* returns.                                                                *)
(***************************************************************************)
\* The slots of processes[] filled by the step: tick() is the only
\* operation that shortens the waiting queue, and it appends what it moves.
MovedByTick ==
    IF variant = "final" /\ Len(waiting_queue') < Len(waiting_queue)
    THEN (Len(processes) + 1)..Len(processes')
    ELSE {}

C22_MovedStep ==
    \A i \in MovedByTick :
        /\ processes'[i].allocated = 1
        /\ processes'[i].start_address >= 0
        /\ processes'[i].start_address < MemorySize

C22_MovedIsPlaced == [][C22_MovedStep]_vars

(***************************************************************************)
(* C23: in test2.c a process with size > MAX_PARTITION_SIZE is placed only *)
(* through the frame table and never owns a partition block; a process     *)
(* with size <= MAX_PARTITION_SIZE is placed by best-fit partitioning when *)
(* a free block fits it, and falls back to the frame table when none       *)
(* does.  No process holds a block and frames at once.  As first stated    *)
(* (the threshold alone selects: a small process never holds frames) the   *)
(* property is C23_ThresholdAlone.                                         *)
(***************************************************************************)
HoldsFrames(pid) ==
    \E j \in 1..total_frames : frame_table[j] /\ frame_owner[j] = pid

HoldsBlock(pid) == BlockOf(memory_head, pid) # NULL

RunEnded ==
    /\ pc = "done"
    /\ next_process_index > process_count
    /\ waiting_queue = <<>>
    /\ allocated_processes = <<>>
    /\ Len(memory_head) = 1
    /\ memory_head[1].is_free
    /\ memory_head[1].start_address = 0
    /\ memory_head[1].size = MemorySize
    /\ \A i \in DOMAIN processes :
           /\ processes[i].completed
           /\ processes[i].allocation_time >= processes[i].arrival_time
           /\ BlockOf(memory_head, processes[i].pid) = NULL

C24_RunCompletes == <>RunEnded /\ [](pc = "done" => RunEnded)

\* The run has ended after a process had to wait for memory.
C24_Witness ==
    /\ variant = "tes3" /\ RunEnded
    /\ \E i \in DOMAIN processes :
           processes[i].allocation_time > processes[i].arrival_time + 1

(***************************************************************************)
(* C25: in test.c/tes3.c every allocated process is decremented exactly    *)
(* once per tick and is marked completed in the tick in which current_time *)
(* equals allocation_time + execution_time, whether add_process placed it  *)
(* before the tick or a retry placed it during a tick.                     *)
(***************************************************************************)
\* In memory: placed and not yet completed.
Running(p) == p.allocation_time # -1 /\ ~p.completed

C25_RemainingTime ==
    BlockVariant =>
        \A i \in DOMAIN processes :
            LET p == processes[i]
            IN  /\ Running(p) =>
                       /\ p.remaining_time
                              = p.execution_time
                                    - (current_time - p.allocation_time)
                       /\ p.remaining_time > 0
                /\ p.completed =>
                       current_time >= p.allocation_time + p.execution_time
                /\ p.allocation_time = -1 =>
                       p.remaining_time = p.execution_time

C25_TickStep ==
    TickStep =>
        \A i \in DOMAIN processes :
            LET p == processes[i]
                q == processes'[i]
            IN  /\ q.remaining_time
                       = IF Running(p) THEN p.remaining_time - 1
                         ELSE p.remaining_time
                /\ (q.completed /\ ~p.completed)
                       <=> /\ q.allocation_time # -1
                           /\ current_time'
                                  = q.allocation_time + q.execution_time
                /\ (q.completed /\ ~p.completed) =>
                       Cardinality(Deallocations(log', p.pid)) = 1

C26_NoWaitingFits ==
    BlockVariant =>
        \A k \in 1..Len(waiting_queue) :
            \A b \in 1..Len(memory_head) :
                memory_head[b].is_free =>
                    processes[waiting_queue[k]].size > memory_head[b].size

\* After a tick that freed memory a process still waits although some
\* block is free, and it could be placed in the pool if it were empty.
C26_Witness ==
    /\ BlockVariant
    /\ \E n \in Calls("deallocate_memory") : log[n].ok
    /\ \E b \in 1..Len(memory_head) : memory_head[b].is_free
    /\ \E k \in 1..Len(waiting_queue) :
           processes[waiting_queue[k]].size <= MemorySize

(***************************************************************************)
(* C27: in the loops of test.c and tes3.c every process is passed to       *)
(* add_process at the first iteration whose current_time is >= its         *)
(* arrival_time, whatever its position in the array: once the clock has    *)
(* passed a process's arrival time the process has been added.             *)
(***************************************************************************)
C27_AddedOnArrival ==
    BlockVariant =>
        \A i \in DOMAIN processes :
            processes[i].arrival_time < current_time
                => i < next_process_index

(***************************************************************************)
(* C28: in final.c, executed without interleaving, after every add and     *)
(* every tick total_used_memory equals the sum of the sizes of the         *)
(* processes with allocated = 1, which equals MEMORY_SIZE minus the sum of *)
(* the sizes of the free blocks.                                           *)
(***************************************************************************)
AllocatedSize == SumSizes(SelectSeq(processes, LAMBDA p : p.allocated = 1))

C28_UsedMemoryCounter ==
    variant = "final" =>
        /\ total_used_memory = AllocatedSize
        /\ AllocatedSize = MemorySize - SumSizes(freeList)

(***************************************************************************)
(* C29: in final.c, under every interleaving of tick() with main's add     *)
(* sequence, no process record is lost, overwritten or duplicated: once    *)
(* both operations have finished, each process entered is recorded exactly *)
(* once, in processes[0..num_processes) or in the waiting queue, and no    *)
(* two allocated processes overlap.                                        *)
(***************************************************************************)
\* The records of processes[0..num_processes) and of the waiting queue.
Recorded ==
    SubSeq(processes, 1, threads.num_processes) \o waiting_queue

RecordsOf(id) == {k \in 1..Len(Recorded) : Recorded[k].id = id}

C29_NoRecordLost ==
    (variant = "final" /\ threads.main = "menu" /\ threads.tick = "idle") =>
        /\ \A id \in 1..threads.entered : Cardinality(RecordsOf(id)) = 1
        /\ \A a, b \in 1..threads.num_processes :
               (/\ a # b
                /\ processes[a].allocated = 1
                /\ processes[b].allocated = 1) =>
                   \/ processes[a].start_address + processes[a].size
                          <= processes[b].start_address
                   \/ processes[b].start_address + processes[b].size
                          <= processes[a].start_address

(***************************************************************************)
(* C30: in test2.c the memory committed to the two strategies together     *)
(* never exceeds the pool: the sizes of the partition blocks that are not  *)
(* free plus PAGE_SIZE for every claimed frame is at most                  *)
(* total_memory_size.                                                      *)
(***************************************************************************)
ClaimedFrames == {j \in 1..total_frames : frame_table[j]}

C30_CommittedWithinPool ==
    variant = "test2" =>
        UsedSize(memory_head) + PAGE_SIZE * Cardinality(ClaimedFrames)
            <= MemorySize

(***************************************************************************)
(* C31: in test2.c the frame table agrees with the processes.  A frame is  *)
(* taken exactly when its owner is the pid of a process that is allocated  *)
(* with uses_paging (a free frame has owner -1); the frames such a process *)
(* owns are exactly the frame numbers of the loaded entries of its page    *)
(* table; and deallocate_memory(pid) of a paged process leaves no frame    *)
(* owned by pid and adds to the free frames exactly those it held.         *)
(***************************************************************************)
\* The frames (0-based) owned by pid in the tables ft, fo.
FramesOf(ft, fo, pid) ==
    {j \in 0..(total_frames - 1) : ft[j + 1] /\ fo[j + 1] = pid}

FreeFrames(ft) == {j \in 0..(total_frames - 1) : ~ft[j + 1]}

PagedNow(i) == processes[i].allocated /\ processes[i].uses_paging

C31_FramesConsistent ==
    variant = "test2" =>
        /\ \A j \in 1..total_frames :
               /\ frame_table[j] <=>
                      \E i \in DOMAIN processes :
                          PagedNow(i) /\ processes[i].pid = frame_owner[j]
               /\ ~frame_table[j] => frame_owner[j] = -1
        /\ \A i \in DOMAIN processes :
               PagedNow(i) =>
                   FramesOf(frame_table, frame_owner, processes[i].pid)
                       = {processes[i].page_table.entries[k].frame_number :
                             k \in LoadedPages(processes[i].page_table)}

\* The deallocate_memory calls of the last action that found a paged process.
PagedDeallocations ==
    {n \in 1..Len(log') :
        /\ log'[n].op = "deallocate_memory"
        /\ log'[n].proc # NULL
        /\ processes[log'[n].proc].uses_paging}

C31_DeallocateStep ==
    variant = "test2" =>
        \A n \in PagedDeallocations :
            LET pid == log'[n].pid
                held == FramesOf(frame_table, frame_owner, pid)
            IN  /\ FramesOf(frame_table', frame_owner', pid) = {}
                /\ \A j \in 1..total_frames : frame_owner'[j] # pid
                /\ FreeFrames(frame_table') = FreeFrames(frame_table) \cup held
                /\ Cardinality(FreeFrames(frame_table'))
                       = Cardinality(FreeFrames(frame_table))
                             + Cardinality(held)

C31_FrameTable == [](C31_FramesConsistent) /\ [][C31_DeallocateStep]_vars

\* A paged process of more than one page has just been deallocated while
\* another paged process keeps its frame.
C31_Witness ==
    /\ variant = "test2"
    /\ \E n \in Calls("deallocate_memory") :
           /\ log[n].proc # NULL
           /\ processes[log[n].proc].uses_paging
           /\ ~processes[log[n].proc].allocated
           /\ processes[log[n].proc].size > PAGE_SIZE
    /\ \E i \in DOMAIN processes : PagedNow(i)

(***************************************************************************)
(* C32: in test2.c every index used on frame_table and frame_owner is in   *)
(* 0..MAX_FRAMES-1, for every memory size main accepts: from the first     *)
(* display_memory_state on, the frames counted by display_memory_state     *)
(* (and swept by allocate_frames and deallocate_paged_process) are cells   *)
(* of the arrays.                                                          *)
(***************************************************************************)
C32_FrameIndexInRange ==
    (variant = "test2" /\ pc # "start") =>
        \A j \in test2_display_memory_state(total_memory_size) :
            0 <= j /\ j <= MaxFrames - 1

(***************************************************************************)
(* C33: every simulation run of tes3.c started from the menu, a second run *)
(* on the same process set included, starts from a state equivalent to the *)
(* initial one: one free block over the pool, empty waiting queue and      *)
(* allocated list, time 0, no process allocated or completed.              *)
(***************************************************************************)
\* Menu choice 5 has just initialised the simulation state.
RunStarts ==
    /\ variant = "tes3" /\ pc = "run"
    /\ current_time = 0 /\ next_process_index = 1 /\ log = <<>>

C33_RunStartsFresh ==
    RunStarts =>
        /\ Len(memory_head) = 1
        /\ memory_head[1].is_free
        /\ memory_head[1].start_address = 0
        /\ memory_head[1].size = MemorySize
        /\ waiting_queue = <<>>
        /\ allocated_processes = <<>>
        /\ \A i \in DOMAIN processes :
               ~processes[i].allocated /\ ~processes[i].completed

(***************************************************************************)
(* C34: in test2.c a process placed by paging needs pages_needed =         *)
(* ceiling(size / PAGE_SIZE) pages, and allocate_frames claims exactly     *)
(* min(pages_needed, free frames) frames: each was free before the call,   *)
(* they are the lowest-numbered free frames, contiguous or not, they get   *)
(* the pid of the process, and every other frame is left unchanged.        *)
(***************************************************************************)
\* The least number of pages that hold size units.
Ceiling(size) ==
    CHOOSE k \in 0..size : k * PAGE_SIZE >= size /\ (k - 1) * PAGE_SIZE < size

Min(a, b) == IF a <= b THEN a ELSE b

C34_PagingStep ==
    (variant = "test2" /\ Len(log') = 1 /\ log'[1].op = "allocate_with_paging")
        => LET e == log'[1]
               frames == 1..FramesIn(total_memory_size)
               free == {j \in frames : ~frame_table[j]}
               claimed == {j \in frames : frame_table'[j] /\ ~frame_table[j]}
           IN  /\ e.pages_needed = Ceiling(processes[e.proc].size)
               /\ e.free_frames = Cardinality(free)
               /\ Cardinality(claimed) = Min(e.pages_needed, Cardinality(free))
               /\ e.at = Cardinality(claimed)
               /\ \A j \in claimed : \A k \in free \ claimed : j < k
               /\ \A j \in claimed : frame_owner'[j] = e.pid
               /\ \A j \in frames \ claimed :
                      /\ frame_table'[j] = frame_table[j]
                      /\ frame_owner'[j] = frame_owner[j]

C34_LowestFreeFrames == [][C34_PagingStep]_vars

\* A process of two pages has been given the frames 0 and 2, frame 1 being
\* held by another process.
C34_Witness ==
    /\ variant = "test2"
    /\ Len(log) = 1 /\ log[1].op = "allocate_with_paging"
    /\ log[1].pages_needed = 2 /\ log[1].at = 2
    /\ frame_owner[1] = log[1].pid
    /\ frame_owner[2] # log[1].pid /\ frame_table[2]
    /\ frame_owner[3] = log[1].pid

(***************************************************************************)
(* C35: no free region of length 0 ever exists.  With positive process     *)
(* sizes every free block of final.c's free list and every free            *)
(* MemoryBlock of the block-list programs has size > 0, during the calls   *)
(* as well as between them; final.c unlinks a block whose size becomes 0,  *)
(* and a block-list split leaves a remainder of more than SLACK units.     *)
(***************************************************************************)
NoEmptyFree(mem) == \A k \in 1..Len(mem) : mem[k].is_free => mem[k].size > 0

NoEmptyBlock(list) == \A k \in 1..Len(list) : list[k].size > 0

\* The allocate_memory calls of the last operation that split a block.
Splits ==
    {n \in Calls("allocate_memory") :
        log[n].ok /\ Len(log[n].mid) = Len(log[n].before) + 1}

\* The allocate_memory calls of final.c that used up a whole free block.
Unlinks ==
    {n \in Calls("allocate_memory") :
        log[n].ok /\ log[n].before[log[n].at].size = processes[log[n].proc].size}

C35_NoEmptyFreeRegion ==
    /\ ListVariant =>
           /\ NoEmptyFree(memory_head)
           /\ \A n \in 1..Len(log) :
                  (log[n].op \in {"allocate_memory", "deallocate_memory"}) =>
                      NoEmptyFree(log[n].mid) /\ NoEmptyFree(log[n].after)
           /\ \A n \in Splits :
                  /\ log[n].mid[log[n].at + 1].is_free
                  /\ log[n].mid[log[n].at + 1].size > SLACK
    /\ variant = "final" =>
           /\ NoEmptyBlock(freeList)
           /\ \A n \in 1..Len(log) :
                  NoEmptyBlock(log[n].mid) /\ NoEmptyBlock(log[n].after)
           /\ \A n \in Unlinks :
                  Len(log[n].after) = Len(log[n].before) - 1

\* final.c has just placed a process that used up a whole free block while
\* another free block remains.
C35_Witness ==
    /\ variant = "final"
    /\ Unlinks # {}
    /\ Len(freeList) >= 1

(***************************************************************************)
(* C36: a fragmentation event is recorded at every statistics sample: a    *)
(* simulate_time_step at whose end more than one block is free increases   *)
(* stats.total_fragmentation_events by exactly 1, and one that ends with   *)
(* at most one free block leaves the counter unchanged.                    *)
(***************************************************************************)
\* The step is a simulate_time_step: its last call is the statistics sample.
TimeStep ==
    /\ BlockVariant
    /\ Len(log') > 0
    /\ log'[Len(log')].op = "calculate_memory_utilization"

C36_SampleStep ==
    TimeStep =>
        stats'.total_fragmentation_events =
            stats.total_fragmentation_events
                + (IF FreeBlockCount(memory_head') > 1 THEN 1 ELSE 0)

C36_EventPerSample == [][C36_SampleStep]_vars

(***************************************************************************)
(* C37: after every simulate_time_step the reported utilization            *)
(* stats.memory_utilization equals (sum of the sizes of the blocks that    *)
(* are not free) / total_memory_size for the layout at that sample; it is  *)
(* recomputed from the current layout alone and does not depend on the     *)
(* earlier samples.                                                        *)
(***************************************************************************)
C37_SampleStep ==
    TimeStep =>
        stats'.memory_utilization.num
            = UsedSize(memory_head') * Pow2(stats'.memory_utilization.exp)

C37_UtilizationFresh == [][C37_SampleStep]_vars

(***************************************************************************)
(* C38: statistics never feed back into placement.  From the same block    *)
(* list, process table, waiting queue and current_time, but different      *)
(* values of the stats counters, each operation of test.c/tes3.c           *)
(* (add_process of the next arrival, simulate_time_step, the display)      *)
(* makes the same calls with the same results and leaves the same block    *)
(* list, process table, waiting queue, allocated list and time; so two     *)
(* such executions go through the same sequence of them.                   *)
(***************************************************************************)
\* Other values of the counters: all large, and large and zero mixed.
OtherStats ==
    {[successful_allocations |-> a, failed_allocations |-> NumProcs + 1 - a,
      total_fragmentation_events |-> a, max_waiting_time |-> MaxTime + 1 - a,
      completed_processes |-> NumProcs + 1 - a,
      memory_utilization |-> [num |-> a, exp |-> 0]] :
        a \in {0, 1, NumProcs + 1}}

\* What an operation decides and leaves, the statistics aside.
Placement(st) ==
    <<st.memory_head, st.processes, st.waiting_queue, st.allocated_processes,
      st.current_time, st.ret, st.log>>

C38_NoFeedback ==
    (BlockVariant /\ pc = "run") =>
        \A s2 \in OtherStats :
            LET other == [Cur EXCEPT !.stats = s2]
            IN  /\ Placement(display_memory_state(simulate_time_step(Cur)))
                       = Placement(display_memory_state(
                                       simulate_time_step(other)))
                /\ ArrivalDue =>
                       Placement(display_memory_state(
                                     add_process(Cur, next_process_index)))
                           = Placement(display_memory_state(
                                           add_process(other,
                                                       next_process_index)))

\* A tick has placed a waiting process after allocations have failed: the
\* counters are not zero when the next operation decides.
C38_Witness ==
    /\ BlockVariant /\ pc = "run"
    /\ stats.failed_allocations > 0 /\ stats.successful_allocations > 0
    /\ Len(waiting_queue) > 0
    /\ \E n \in Calls("check_waiting_processes") : log[n].ok

(***************************************************************************)
(* C39: in test.c/tes3.c, between operations, allocated_processes          *)
(* [0..allocated_count) holds no pid twice and is exactly the set of pids  *)
(* that own a block that is not free, each such pid owning exactly one     *)
(* block; hence allocated_count equals the number of blocks not free.      *)
(***************************************************************************)
\* The blocks of the list owned by pid.
BlocksOf(pid) ==
    {k \in 1..Len(memory_head) :
        ~memory_head[k].is_free /\ memory_head[k].process_id = pid}

UsedBlocks == {k \in 1..Len(memory_head) : ~memory_head[k].is_free}

C39_AllocatedListMatchesBlocks ==
    BlockVariant =>
        /\ NoDuplicates(allocated_processes)
        /\ Range(allocated_processes)
               = {memory_head[k].process_id : k \in UsedBlocks}
        /\ \A pid \in Range(allocated_processes) :
               Cardinality(BlocksOf(pid)) = 1
        /\ Len(allocated_processes) = Cardinality(UsedBlocks)

\* Two processes hold blocks after a third has completed and left the list.
C39_Witness ==
    /\ BlockVariant
    /\ Len(allocated_processes) = 2
    /\ Cardinality(UsedBlocks) = 2
    /\ \E n \in Calls("deallocate_memory") : log[n].ok

====
